---------------------------- MODULE Spec2Model ----------------------------
(***************************************************************************)
(* Model of the wall-finishing robot's coverage path-planning service     *)
(* (app/services/path_planning.py) together with the trajectory store it  *)
(* writes to and the statistics route that reads the store back.          *)
(*                                                                         *)
(* Numbers.  The program computes in IEEE doubles; the model computes in  *)
(* fixed point:                                                            *)
(*   lengths and coordinates  integer millimetres   (0.1 m  = 100)        *)
(*   areas                    square millimetres    (0.001 m2 = 1000)     *)
(*   distances (results of _calculate_distance)  hundredths of a          *)
(*                            millimetre, rounded to nearest              *)
(*   angles                   milliradians          (pi = 3142)           *)
(*   percentages              the number itself     (20 % = 20)           *)
(***************************************************************************)
EXTENDS Integers, Sequences, FiniteSets, TLC

(***************************************************************************)
(* Arithmetic helpers                                                      *)
(***************************************************************************)
Min(a, b) == IF a <= b THEN a ELSE b

Max(a, b) == IF a >= b THEN a ELSE b

Abs(a) == IF a < 0 THEN -a ELSE a

\* n / d rounded to the nearest integer (d > 0)
Round(n, d) == (2 * n + d) \div (2 * d)

\* ceil(n / d) for d > 0
CeilDiv(n, d) == -((-n) \div d)

\* Python's int(): truncation towards zero of n / d (d > 0)
IntDiv(n, d) == IF n >= 0 THEN n \div d ELSE -((-n) \div d)

RECURSIVE SqrtSearch(_, _, _)
SqrtSearch(n, lo, hi) ==
    IF lo >= hi THEN lo
    ELSE LET mid == (lo + hi + 1) \div 2
         IN IF mid * mid <= n THEN SqrtSearch(n, mid, hi)
                              ELSE SqrtSearch(n, lo, mid - 1)

\* floor(sqrt(n)), n >= 0
ISqrt(n) == SqrtSearch(n, 0, Min(n, 46340))

\* math.sqrt(n) in two-decimal fixed point: sqrt(n) * 100 rounded to nearest.
\* With r = floor(sqrt(n)), floor(200 * sqrt(n)) = 200 * r + d for the largest
\* d in 0..199 with 400 * r * d + d * d <= 40000 * (n - r * r).
RECURSIVE FractionSearch(_, _, _, _)
FractionSearch(r, rem, lo, hi) ==
    IF lo >= hi THEN lo
    ELSE LET mid == (lo + hi + 1) \div 2
         IN IF 400 * r * mid + mid * mid <= rem
            THEN FractionSearch(r, rem, mid, hi)
            ELSE FractionSearch(r, rem, lo, mid - 1)

Sqrt100(n) ==
    LET r == ISqrt(n)
        rem == 40000 * (n - r * r)
        d == FractionSearch(r, rem, 0, 199)
    IN (200 * r + d + 1) \div 2

(***************************************************************************)
(* math.pi and the trigonometric functions, in milliradians / thousandths *)
(***************************************************************************)
Pi == 3142

TwoPi == 6283

HalfPi == 1571

QuarterPi == 785

\* cos(x) * 1000 for 0 <= x <= pi/2 (Taylor polynomial to x^6)
CosQ(x) ==
    LET x2 == (x * x) \div 1000
        x4 == (x2 * x2) \div 1000
        x6 == (x4 * x2) \div 1000
    IN 1000 - (x2 \div 2) + (x4 \div 24) - (x6 \div 720)

\* math.cos(a) * 1000 for 0 <= a < 2*pi + pi/2
Cos(a) ==
    LET r == a % TwoPi
    IN IF r <= HalfPi THEN CosQ(r)
       ELSE IF r <= Pi THEN -CosQ(Pi - r)
       ELSE IF r <= Pi + HalfPi THEN -CosQ(r - Pi)
       ELSE CosQ(Max(0, Min(HalfPi, TwoPi - r)))

\* math.sin(a) * 1000 = cos(a - pi/2)
Sin(a) == Cos(a + TwoPi - HalfPi)

(***************************************************************************)
(* PathPoint (path_planning.py:15-23) and the obstacle dictionaries       *)
(***************************************************************************)
PathPoint(px, py, o) ==
    [x |-> px, y |-> py, z |-> 0, orientation |-> o,
     tool_active |-> TRUE, motion_type |-> "linear", feed_rate |-> 100]

RapidPoint(px, py) ==
    [x |-> px, y |-> py, z |-> 0, orientation |-> 0,
     tool_active |-> FALSE, motion_type |-> "rapid", feed_rate |-> 100]

Rect(cx, cy, w, h) ==
    [type |-> "rectangle", center_x |-> cx, center_y |-> cy,
     width |-> w, height |-> h, radius |-> 0]

Circle(cx, cy, r) ==
    [type |-> "circle", center_x |-> cx, center_y |-> cy,
     width |-> 0, height |-> 0, radius |-> r]

(***************************************************************************)
(* Inputs of one planning call: the request's fields and the wall with    *)
(* its obstacles.                                                          *)
(***************************************************************************)
KnownAlgorithms == {"boustrophedon", "spiral", "zigzag"}

Algorithms == KnownAlgorithms \cup {"voronoi"}

WallDims == {50, 300, 400}

RobotWidths == {100}

Overlaps == {0, 20, 50, 100}

Resolutions == {30, 50}

ObstacleLists ==
    { <<>>,
      <<Rect(150, 150, 50, 50)>>,
      <<Circle(150, 150, 50)>>,
      <<Rect(150, 150, 50, 50), Circle(100, 50, 40)>>,
      <<Rect(150, 150, 300, 300)>>,
      <<Rect(225, 150, 150, 300), Rect(225, 150, 150, 300)>>,
      <<Rect(225, 150, 150, 300), Rect(225, 150, 146, 300)>> }

\* TrajectoryPlanRequest's default resolution, 0.01
DEFAULT_RESOLUTION == 10

\* width, height and sampling resolution of the calls: every wall at the
\* coarse resolutions, and a narrow wall (three samples a row) at the default
Surfaces ==
    (WallDims \X WallDims \X Resolutions) \cup {<<130, 300, DEFAULT_RESOLUTION>>}

\* The spiral loop of a call with overlap 100 never ends; the model follows
\* it until the path holds MaxPoints points.  No call with overlap < 100
\* on these inputs emits that many spiral points (SpiralBoundNotReached).
MaxPoints == 48

(***************************************************************************)
(* PathPlanningService constants (path_planning.py:35-38)                 *)
(***************************************************************************)
RAPID_THRESHOLD == 50

AVG_FEED_RATE == 100

COLLINEAR_TOLERANCE == 1000

\* 1000 in the source; scaled to the model's path lengths so that full
\* batches, a partial last batch and exact multiples all occur.
BATCH_SIZE == 4

\* max(radius, 0.01) in _plan_spiral
RADIUS_FLOOR == 10

VARIABLES
    pc,                \* where the planning call is
    algorithm,         \* the algorithm name of the request
    params,            \* PlanningParameters
    path_points,       \* the planner's output so far
    i,                 \* loop index of the running planner / of the store loop
    radius, angle,     \* _plan_spiral's locals
    optimized_points,  \* _optimize_path's result
    metrics,           \* _calculate_path_metrics' result
    error,             \* the exception the call raised, "" if none
    result,            \* the PlanningResult returned (status "" if none)
    session,           \* rows written on the connection and not committed
    db,                \* committed rows
    stats,             \* last answer of the statistics route
    wall_id,           \* id of the Wall the call plans for
    trajectory,        \* the Trajectory object of _create_trajectory_record
    other,             \* the locals of the planning task that is suspended
    walls,             \* committed rows of the walls table
    obstacles,         \* committed rows of the obstacles table
    response,          \* last answer of the walls and planning routes
    normalized         \* the running call of GeometryUtils.normalize_angle

vars == <<pc, algorithm, params, path_points, i, radius, angle,
          optimized_points, metrics, error, result, session, db, stats,
          wall_id, trajectory, other, walls, obstacles, response, normalized>>

\* what the planning service and the statistics route never touch
outside == <<other, walls, obstacles, response, normalized>>

\* arange_excess stands for the last bits of the call's floats: the np.arange
\* calls ("y": the rows, "x": the samples of a row) whose quotient
\* (stop - start) / step, an exact integer in the reals, comes out above it
NoParams ==
    [robot_width |-> 0, overlap_percentage |-> 0, resolution |-> 0,
     wall_width |-> 0, wall_height |-> 0, obstacles |-> <<>>,
     arange_excess |-> {}]

NoMetrics == [total_length |-> 0, coverage_percentage |-> 0, estimated_duration |-> 0]

EmptyStore == [trajectories |-> <<>>, points |-> <<>>]

NoResult ==
    [trajectory_id |-> 0, algorithm |-> "", total_points |-> 0, total_length |-> 0,
     coverage_percentage |-> 0, estimated_duration_minutes |-> 0, status |-> ""]

NoStats ==
    [status_code |-> 0, trajectory_id |-> 0, total_points |-> 0, cutting_points |-> 0,
     rapid_points |-> 0, total_length |-> 0, cutting_length |-> 0, rapid_length |-> 0]

\* the Trajectory local before _create_trajectory_record builds it
NoTrajectory == [id |-> 0, wall_id |-> 0, status |-> ""]

NoResponse == [status_code |-> 0, detail |-> ""]

\* normalize_angle is not running
NotNormalizing == [pc |-> "idle", input |-> 0, angle |-> 0]

\* the locals of a planning task that has not started: a request gets its
\* own PathPlanningService() (planning.py:47) and its own frame
FreshTask ==
    [pc |-> "idle", algorithm |-> "", params |-> NoParams, path_points |-> <<>>,
     i |-> 0, radius |-> 0, angle |-> 0, optimized_points |-> <<>>,
     metrics |-> NoMetrics, error |-> "", result |-> NoResult,
     wall_id |-> 0, trajectory |-> NoTrajectory]

Init ==
    /\ pc = "idle"
    /\ algorithm = ""
    /\ params = NoParams
    /\ path_points = <<>>
    /\ i = 0
    /\ radius = 0
    /\ angle = 0
    /\ optimized_points = <<>>
    /\ metrics = NoMetrics
    /\ error = ""
    /\ result = NoResult
    /\ session = EmptyStore
    /\ db = EmptyStore
    /\ stats = NoStats
    /\ wall_id = 0
    /\ trajectory = NoTrajectory
    /\ other = FreshTask
    /\ walls = <<>>
    /\ obstacles = <<>>
    /\ response = NoResponse
    /\ normalized = NotNormalizing

(***************************************************************************)
(* Shared helpers of the planners                                          *)
(***************************************************************************)
\* robot_width * (1 - overlap_percentage / 100)
effective_width(p) == (p.robot_width * (100 - p.overlap_percentage)) \div 100

half_width(p) == p.robot_width \div 2

_is_within_bounds(x, y, p) ==
    /\ half_width(p) <= x /\ x <= p.wall_width - half_width(p)
    /\ half_width(p) <= y /\ y <= p.wall_height - half_width(p)

\* the test _is_point_free applies to one obstacle
InBufferedRect(x, y, geom, buffer) ==
    /\ geom.center_x - geom.width \div 2 - buffer <= x
    /\ x <= geom.center_x + geom.width \div 2 + buffer
    /\ geom.center_y - geom.height \div 2 - buffer <= y
    /\ y <= geom.center_y + geom.height \div 2 + buffer

\* mutant: the obstacle's own extent, without the half-robot-width buffer
_is_point_free_unbuffered(x, y, p) ==
    \A k \in 1..Len(p.obstacles) :
       ~(p.obstacles[k].type = "rectangle" /\ InBufferedRect(x, y, p.obstacles[k], 0))

\* mutant: a circle obstacle excludes the points within radius + buffer of it
_is_point_free_circles(x, y, p) ==
    LET buffer == half_width(p)
    IN \A k \in 1..Len(p.obstacles) :
          LET obstacle == p.obstacles[k]
          IN /\ ~(obstacle.type = "rectangle" /\ InBufferedRect(x, y, obstacle, buffer))
             /\ ~(/\ obstacle.type = "circle"
                  /\ (x - obstacle.center_x) * (x - obstacle.center_x)
                       + (y - obstacle.center_y) * (y - obstacle.center_y)
                       <= (obstacle.radius + buffer) * (obstacle.radius + buffer))

_is_point_free(x, y, p) ==
    LET buffer == half_width(p)
    IN \A k \in 1..Len(p.obstacles) :
          LET obstacle == p.obstacles[k]
          IN ~(obstacle.type = "rectangle" /\ InBufferedRect(x, y, obstacle, buffer))

_calculate_distance(x1, y1, x2, y2, z1, z2) ==
    Sqrt100((x2 - x1) * (x2 - x1) + (y2 - y1) * (y2 - y1) + (z2 - z1) * (z2 - z1))

\* len(np.arange(start, stop, step)), step # 0
ArangeLen(start, stop, step) ==
    IF step > 0 THEN Max(0, CeilDiv(stop - start, step))
                ELSE Max(0, CeilDiv(start - stop, -step))

\* len(np.arange(start, stop, step)) in doubles: the length is
\* ceil((stop - start) / step) of the float quotient, so when stop - start is
\* an exact multiple of the step the quotient may round above the integer
\* and the array gets one more element, equal to stop
ArangeLenFloat(start, stop, step, excess) ==
    ArangeLen(start, stop, step)
    + (IF /\ excess
          /\ ArangeLen(start, stop, step) > 0
          /\ (IF step > 0 THEN (stop - start) % step ELSE (start - stop) % (-step)) = 0
       THEN 1 ELSE 0)

\* the points of `candidates` that pass the free-space test, in order
FreePoints(candidates, p) ==
    SelectSeq(candidates, LAMBDA c : _is_point_free(c.x, c.y, p))

(***************************************************************************)
(* _plan_boustrophedon: row number k (from 0) of the sweep                 *)
(***************************************************************************)
BoustrophedonRows(p) ==
    ArangeLenFloat(half_width(p), p.wall_height - half_width(p), effective_width(p),
                   "y" \in p.arange_excess)

BoustrophedonCandidates(p, k) ==
    LET direction == IF k % 2 = 0 THEN 1 ELSE -1
        y == half_width(p) + k * effective_width(p)
        x_start == IF direction = 1 THEN half_width(p) ELSE p.wall_width - half_width(p)
        x_end == IF direction = 1 THEN p.wall_width - half_width(p) ELSE half_width(p)
        n == ArangeLenFloat(x_start, x_end, p.resolution * direction,
                            "x" \in p.arange_excess)
    IN [j \in 1..n |->
          PathPoint(x_start + (j - 1) * p.resolution * direction, y,
                    IF direction = 1 THEN 0 ELSE Pi)]

(***************************************************************************)
(* _plan_spiral: one iteration of the while loop                           *)
(***************************************************************************)
SpiralMaxRadius(p) == Min(p.wall_width, p.wall_height) \div 2 - half_width(p)

SpiralAngleStep(p, r) == Round(p.resolution * 1000, Max(r, RADIUS_FLOOR))

SpiralCandidate(p, r, a) ==
    PathPoint(p.wall_width \div 2 + Round(r * Cos(a), 1000),
              p.wall_height \div 2 + Round(r * Sin(a), 1000),
              a + HalfPi)

(***************************************************************************)
(* _plan_zigzag: pass number k (from 0)                                    *)
(***************************************************************************)
ZigzagSpacing(p) == Round(effective_width(p) * 1000, Sin(QuarterPi))

ZigzagPasses(p) == IntDiv(p.wall_width, ZigzagSpacing(p)) + 1

ZigzagCandidates(p, k) ==
    LET x_offset == k * ZigzagSpacing(p)
        even == k % 2 = 0
        start_x == x_offset
        start_y == IF even THEN half_width(p) ELSE p.wall_height - half_width(p)
        end_x == Min(p.wall_width - half_width(p), x_offset + p.wall_height)
        end_y == IF even
                 THEN Min(p.wall_height - half_width(p), start_y + (end_x - start_x))
                 ELSE Max(half_width(p), start_y - (end_x - start_x))
        orientation == IF even THEN QuarterPi ELSE -QuarterPi
        distance == _calculate_distance(start_x, start_y, end_x, end_y, 0, 0)
        num_points == Max(2, IntDiv(distance, 100 * p.resolution))
    IN [j \in 1..num_points |->
          PathPoint(start_x + Round((j - 1) * (end_x - start_x), Max(num_points - 1, 1)),
                    start_y + Round((j - 1) * (end_y - start_y), Max(num_points - 1, 1)),
                    orientation)]

(***************************************************************************)
(* _optimize_path, _is_collinear, _add_connecting_moves                    *)
(***************************************************************************)
_is_collinear(p1, p2, p3) ==
    Abs((p2.x - p1.x) * (p3.y - p1.y) - (p2.y - p1.y) * (p3.x - p1.x))
        < COLLINEAR_TOLERANCE

RECURSIVE ConnectFrom(_, _)
ConnectFrom(pts, k) ==
    IF k > Len(pts) THEN <<>>
    ELSE LET prev_point == pts[k - 1]
             current_point == pts[k]
             distance == _calculate_distance(prev_point.x, prev_point.y,
                                             current_point.x, current_point.y, 0, 0)
         IN (IF distance > 100 * RAPID_THRESHOLD
             THEN <<RapidPoint(current_point.x, current_point.y)>>
             ELSE <<>>)
            \o <<current_point>> \o ConnectFrom(pts, k + 1)

\* mutant: a pair exactly RAPID_THRESHOLD apart gets a marker too
RECURSIVE ConnectFromInclusive(_, _)
ConnectFromInclusive(pts, k) ==
    IF k > Len(pts) THEN <<>>
    ELSE LET prev_point == pts[k - 1]
             current_point == pts[k]
             distance == _calculate_distance(prev_point.x, prev_point.y,
                                             current_point.x, current_point.y, 0, 0)
         IN (IF distance >= 100 * RAPID_THRESHOLD
             THEN <<RapidPoint(current_point.x, current_point.y)>>
             ELSE <<>>)
            \o <<current_point>> \o ConnectFromInclusive(pts, k + 1)

\* mutant: the rapid marker is appended after the point it leads to
RECURSIVE ConnectFromTrailing(_, _)
ConnectFromTrailing(pts, k) ==
    IF k > Len(pts) THEN <<>>
    ELSE LET prev_point == pts[k - 1]
             current_point == pts[k]
             distance == _calculate_distance(prev_point.x, prev_point.y,
                                             current_point.x, current_point.y, 0, 0)
         IN <<current_point>>
            \o (IF distance > 100 * RAPID_THRESHOLD
                THEN <<RapidPoint(current_point.x, current_point.y)>>
                ELSE <<>>)
            \o ConnectFromTrailing(pts, k + 1)

\* mutant: a gap gets a marker at each end, one to lift and one to lower
RECURSIVE ConnectFromBothEnds(_, _)
ConnectFromBothEnds(pts, k) ==
    IF k > Len(pts) THEN <<>>
    ELSE LET prev_point == pts[k - 1]
             current_point == pts[k]
             distance == _calculate_distance(prev_point.x, prev_point.y,
                                             current_point.x, current_point.y, 0, 0)
         IN (IF distance > 100 * RAPID_THRESHOLD
             THEN <<RapidPoint(prev_point.x, prev_point.y),
                    RapidPoint(current_point.x, current_point.y)>>
             ELSE <<>>)
            \o <<current_point>> \o ConnectFromBothEnds(pts, k + 1)

_add_connecting_moves_both_ends(pts) ==
    IF Len(pts) < 2 THEN pts ELSE <<pts[1]>> \o ConnectFromBothEnds(pts, 2)

_add_connecting_moves_trailing(pts) ==
    IF Len(pts) < 2 THEN pts ELSE <<pts[1]>> \o ConnectFromTrailing(pts, 2)

_add_connecting_moves_inclusive(pts) ==
    IF Len(pts) < 2 THEN pts ELSE <<pts[1]>> \o ConnectFromInclusive(pts, 2)

_add_connecting_moves(pts) ==
    IF Len(pts) < 2 THEN pts ELSE <<pts[1]>> \o ConnectFrom(pts, 2)

\* mutant: the kept interior points are rebuilt from (x, y) alone
PruneCollinear_rebuilt(pts) ==
    LET interior == [k \in 1..(Len(pts) - 2) |-> k + 1]
        keep == SelectSeq(interior,
                          LAMBDA k : ~_is_collinear(pts[k - 1], pts[k], pts[k + 1]))
    IN <<pts[1]>> \o [j \in 1..Len(keep) |-> PathPoint(pts[keep[j]].x, pts[keep[j]].y, 0)]
       \o <<pts[Len(pts)]>>

\* the collinearity pruning of _optimize_path (lines 233-240)
PruneCollinear(pts) ==
    LET interior == [k \in 1..(Len(pts) - 2) |-> k + 1]
        keep == SelectSeq(interior,
                          LAMBDA k : ~_is_collinear(pts[k - 1], pts[k], pts[k + 1]))
    IN <<pts[1]>> \o [j \in 1..Len(keep) |-> pts[keep[j]]] \o <<pts[Len(pts)]>>

_optimize_path(pts) ==
    IF Len(pts) < 2 THEN pts ELSE _add_connecting_moves(PruneCollinear(pts))

(***************************************************************************)
(* _calculate_path_metrics                                                 *)
(***************************************************************************)
SegmentLength(pts, k) ==
    _calculate_distance(pts[k - 1].x, pts[k - 1].y, pts[k].x, pts[k].y,
                        pts[k - 1].z, pts[k].z)

\* mutant: only the segments that end in an active point are summed
RECURSIVE TotalLength_active(_, _)
TotalLength_active(pts, k) ==
    IF k > Len(pts) THEN 0
    ELSE (IF pts[k].tool_active THEN SegmentLength(pts, k) ELSE 0)
         + TotalLength_active(pts, k + 1)

RECURSIVE TotalLength(_, _)
TotalLength(pts, k) ==
    IF k > Len(pts) THEN 0 ELSE SegmentLength(pts, k) + TotalLength(pts, k + 1)

RECURSIVE CuttingLength(_, _)
CuttingLength(pts, k) ==
    IF k > Len(pts) THEN 0
    ELSE (IF pts[k].tool_active THEN SegmentLength(pts, k) ELSE 0)
         + CuttingLength(pts, k + 1)

RECURSIVE ObstacleArea(_, _)
ObstacleArea(obs, k) ==
    IF k > Len(obs) THEN 0
    ELSE (IF obs[k].type = "rectangle"
          THEN obs[k].width * obs[k].height ELSE 0)
         + ObstacleArea(obs, k + 1)

\* mutant: the min(100.0, ...) clamp is missing
CoveragePercentage_unclamped(cutting_length, p) ==
    LET effective_area == p.wall_width * p.wall_height - ObstacleArea(p.obstacles, 1)
        covered_area == (cutting_length * p.robot_width) \div 100
    IN IF effective_area > 0 THEN (covered_area * 100) \div effective_area ELSE 0

\* lines 289-296; cutting_length is in hundredths of a millimetre
CoveragePercentage(cutting_length, p) ==
    LET wall_area == p.wall_width * p.wall_height
        effective_area == wall_area - ObstacleArea(p.obstacles, 1)
        covered_area == (cutting_length * p.robot_width) \div 100
    IN IF effective_area > 0
       THEN Min(100, (covered_area * 100) \div effective_area)
       ELSE 0

_calculate_path_metrics(pts, p) ==
    IF pts = <<>> THEN NoMetrics
    ELSE LET total_length == TotalLength(pts, 2)
             cutting_length == CuttingLength(pts, 2)
         IN [total_length |-> total_length,
             coverage_percentage |-> CoveragePercentage(cutting_length, p),
             estimated_duration |->
                 IF AVG_FEED_RATE > 0 THEN (cutting_length * 10) \div AVG_FEED_RATE
                                      ELSE 0]

(***************************************************************************)
(* Rows of the store (database_models.py)                                  *)
(***************************************************************************)
\* Trajectory(...) as _create_trajectory_record builds it; total_points is
\* not passed and takes the column default 0.
TrajectoryRow(id, wall, alg, p, m) ==
    [id |-> id, wall_id |-> wall, algorithm |-> alg,
     robot_width |-> p.robot_width, overlap_percentage |-> p.overlap_percentage,
     resolution |-> p.resolution, total_points |-> 0,
     total_length |-> m.total_length,
     coverage_percentage |-> m.coverage_percentage,
     estimated_duration_minutes |-> m.estimated_duration,
     status |-> "completed"]

\* TrajectoryPoint(...) for enumerate index n (from 0); planned_time = n * 0.1
\* in thousandths
TrajectoryPointRow(id, n, point) ==
    [trajectory_id |-> id, sequence_number |-> n,
     x |-> point.x, y |-> point.y, z |-> point.z,
     orientation |-> point.orientation, tool_active |-> point.tool_active,
     motion_type |-> point.motion_type, feed_rate |-> point.feed_rate,
     planned_time |-> n * 100]

\* rows for the points number from+1 .. to of pts (enumerate indices from .. to-1)
PointRows(id, pts, from, to) ==
    [j \in 1..(to - from) |-> TrajectoryPointRow(id, from + j - 1, pts[from + j])]

(***************************************************************************)
(* plan_trajectory (path_planning.py:43-76), one action per step           *)
(***************************************************************************)
\* the except branch of plan_trajectory: db.rollback() and re-raise
Raise(e) ==
    /\ pc' = "failed"
    /\ error' = e
    /\ session' = EmptyStore

\* _prepare_planning_parameters (lines 82-102) copies the request's and the
\* wall's fields without checking them
_prepare_planning_parameters(w, h, obs, rw, ov, res) ==
    [robot_width |-> rw, overlap_percentage |-> ov, resolution |-> res,
     wall_width |-> w, wall_height |-> h, obstacles |-> obs,
     arange_excess |-> {}]

\* the np.arange calls of the boustrophedon planner whose stop - start is a
\* positive exact multiple of the step, for which the float length may be one
\* more; the other planners call no arange
ExactAranges(alg, p) ==
    IF alg # "boustrophedon" \/ effective_width(p) = 0 THEN {}
    ELSE {a \in {"y"} : /\ p.wall_height > p.robot_width
                         /\ (p.wall_height - p.robot_width) % effective_width(p) = 0}
         \cup {a \in {"x"} : /\ p.wall_width > p.robot_width
                              /\ (p.wall_width - p.robot_width) % p.resolution = 0}

\* lines 45-51: the service is called with a Wall and a request
plan_trajectory ==
    /\ pc = "idle"
    /\ \E alg \in Algorithms, sf \in Surfaces, rw \in RobotWidths,
          ov \in Overlaps, obs \in ObstacleLists :
          LET p == _prepare_planning_parameters(sf[1], sf[2], obs, rw, ov, sf[3])
          IN \E excess \in SUBSET ExactAranges(alg, p) :
                /\ algorithm' = alg
                /\ params' = [p EXCEPT !.arange_excess = excess]
    /\ wall_id' = 1
    /\ pc' = "execute"
    /\ UNCHANGED <<path_points, i, radius, angle, optimized_points, metrics,
                   error, result, session, db, stats, trajectory>>
    /\ UNCHANGED outside

\* mutant: an unrecognised name falls back to the boustrophedon planner
_execute_algorithm_default ==
    /\ pc = "execute"
    /\ pc' = IF algorithm \in KnownAlgorithms THEN algorithm ELSE "boustrophedon"
    /\ i' = 0
    /\ radius' = half_width(params)
    /\ angle' = 0
    /\ UNCHANGED <<algorithm, params, path_points, optimized_points, metrics,
                   error, result, session, db, stats, wall_id, trajectory>>
    /\ UNCHANGED outside

\* _execute_algorithm (lines 104-115): dispatch by name, ValueError otherwise
_execute_algorithm ==
    /\ pc = "execute"
    /\ IF algorithm \in KnownAlgorithms
       THEN /\ pc' = algorithm
            /\ i' = 0
            /\ radius' = half_width(params)
            /\ angle' = 0
            /\ UNCHANGED <<error, session>>
       ELSE /\ Raise("ValueError")
            /\ UNCHANGED <<i, radius, angle>>
    /\ UNCHANGED <<algorithm, params, path_points, optimized_points, metrics,
                   result, db, stats, wall_id, trajectory>>
    /\ UNCHANGED outside

\* _plan_boustrophedon (lines 117-141): np.arange divides (stop - start) by
\* the step and raises when the step is 0; otherwise one row per step, then
\* return.  np.arange's sensitivity to the last bit of a float quotient is
\* below the fixed point of the model.
_plan_boustrophedon ==
    /\ pc = "boustrophedon"
    /\ IF effective_width(params) = 0
       THEN /\ Raise("ZeroDivisionError")
            /\ UNCHANGED <<path_points, i>>
       ELSE IF i < BoustrophedonRows(params)
       THEN /\ path_points' =
                 path_points \o FreePoints(BoustrophedonCandidates(params, i), params)
            /\ i' = i + 1
            /\ UNCHANGED <<pc, error, session>>
       ELSE /\ pc' = "optimize"
            /\ UNCHANGED <<path_points, i, error, session>>
    /\ UNCHANGED <<algorithm, params, radius, angle, optimized_points, metrics,
                   result, db, stats, wall_id, trajectory>>
    /\ UNCHANGED outside

\* mutant: a completed revolution resets the angle and keeps the radius
_plan_spiral_same_radius ==
    /\ pc = "spiral"
    /\ IF radius < SpiralMaxRadius(params)
       THEN LET angle_step == SpiralAngleStep(params, radius)
                c == SpiralCandidate(params, radius, angle)
            IN /\ Len(path_points) < MaxPoints
               /\ path_points' =
                    IF _is_within_bounds(c.x, c.y, params) /\ _is_point_free(c.x, c.y, params)
                    THEN Append(path_points, c) ELSE path_points
               /\ IF angle + angle_step >= TwoPi
                  THEN angle' = 0 /\ radius' = radius
                  ELSE angle' = angle + angle_step /\ radius' = radius
               /\ UNCHANGED pc
       ELSE /\ pc' = "optimize"
            /\ UNCHANGED <<path_points, radius, angle>>
    /\ UNCHANGED <<algorithm, params, i, optimized_points, metrics, error,
                   result, session, db, stats, wall_id, trajectory>>
    /\ UNCHANGED outside

\* _plan_spiral (lines 143-168): one iteration of the while loop, or return
_plan_spiral ==
    /\ pc = "spiral"
    /\ IF radius < SpiralMaxRadius(params)
       THEN LET angle_step == SpiralAngleStep(params, radius)
                c == SpiralCandidate(params, radius, angle)
            IN /\ Len(path_points) < MaxPoints
               /\ path_points' =
                    IF _is_within_bounds(c.x, c.y, params) /\ _is_point_free(c.x, c.y, params)
                    THEN Append(path_points, c) ELSE path_points
               /\ IF angle + angle_step >= TwoPi
                  THEN angle' = 0 /\ radius' = radius + effective_width(params)
                  ELSE angle' = angle + angle_step /\ radius' = radius
               /\ UNCHANGED pc
       ELSE /\ pc' = "optimize"
            /\ UNCHANGED <<path_points, radius, angle>>
    /\ UNCHANGED <<algorithm, params, i, optimized_points, metrics, error,
                   result, session, db, stats, wall_id, trajectory>>
    /\ UNCHANGED outside

\* _plan_zigzag (lines 170-206): wall_width / spacing raises when the spacing
\* is 0; otherwise one pass per step, then return
_plan_zigzag ==
    /\ pc = "zigzag"
    /\ IF ZigzagSpacing(params) = 0
       THEN /\ Raise("ZeroDivisionError")
            /\ UNCHANGED <<path_points, i>>
       ELSE IF i < ZigzagPasses(params)
       THEN /\ path_points' =
                 path_points \o FreePoints(ZigzagCandidates(params, i), params)
            /\ i' = i + 1
            /\ UNCHANGED <<pc, error, session>>
       ELSE /\ pc' = "optimize"
            /\ UNCHANGED <<path_points, i, error, session>>
    /\ UNCHANGED <<algorithm, params, radius, angle, optimized_points, metrics,
                   result, db, stats, wall_id, trajectory>>
    /\ UNCHANGED outside

\* line 53
optimize_path ==
    /\ pc = "optimize"
    /\ optimized_points' = _optimize_path(path_points)
    /\ pc' = "metrics"
    /\ UNCHANGED <<algorithm, params, path_points, i, radius, angle, metrics,
                   error, result, session, db, stats, wall_id, trajectory>>
    /\ UNCHANGED outside

\* line 54
calculate_path_metrics ==
    /\ pc = "metrics"
    /\ metrics' = _calculate_path_metrics(optimized_points, params)
    /\ pc' = "store"
    /\ UNCHANGED <<algorithm, params, path_points, i, radius, angle,
                   optimized_points, error, result, session, db, stats, wall_id,
                   trajectory>>
    /\ UNCHANGED outside

(***************************************************************************)
(* _create_trajectory_record (lines 306-353)                               *)
(***************************************************************************)
\* the INTEGER PRIMARY KEY the flush assigns: one more than the largest id
\* the connection sees, its own uncommitted rows included
NextTrajectoryId ==
    LET ids == {db.trajectories[k].id : k \in 1..Len(db.trajectories)}
               \cup {session.trajectories[k].id : k \in 1..Len(session.trajectories)}
    IN IF ids = {} THEN 1 ELSE (CHOOSE m \in ids : \A n \in ids : n <= m) + 1

\* lines 312-327: db.add(trajectory); flush
add_trajectory ==
    /\ pc = "store"
    /\ session' = [session EXCEPT !.trajectories =
                      Append(@, TrajectoryRow(NextTrajectoryId, wall_id, algorithm,
                                              params, metrics))]
    /\ trajectory' = [id |-> NextTrajectoryId, wall_id |-> wall_id,
                      status |-> "completed"]
    /\ i' = 0
    /\ pc' = "store_points"
    /\ UNCHANGED <<algorithm, params, path_points, radius, angle, optimized_points,
                   metrics, error, result, db, stats, wall_id>>
    /\ UNCHANGED outside

\* mutant: every flushed batch is committed at once
flush_batch_committed ==
    /\ pc = "store_points"
    /\ Len(optimized_points) - i >= BATCH_SIZE
    /\ db' = [trajectories |-> db.trajectories \o session.trajectories,
              points |-> db.points \o session.points \o
                         PointRows(trajectory.id, optimized_points,
                                   i, i + BATCH_SIZE)]
    /\ session' = [session EXCEPT !.points = <<>>]
    /\ i' = i + BATCH_SIZE
    /\ UNCHANGED <<pc, algorithm, params, path_points, radius, angle,
                   optimized_points, metrics, error, result, stats, wall_id,
                   trajectory>>
    /\ UNCHANGED outside

\* mutant: the batch list is not emptied after a flush, so the next flush
\* adds the earlier points again
flush_batch_kept ==
    /\ pc = "store_points"
    /\ Len(optimized_points) - i >= BATCH_SIZE
    /\ session' = [session EXCEPT !.points =
                      @ \o PointRows(trajectory.id, optimized_points,
                                     0, i + BATCH_SIZE)]
    /\ i' = i + BATCH_SIZE
    /\ UNCHANGED <<pc, algorithm, params, path_points, radius, angle,
                   optimized_points, metrics, error, result, db, stats, wall_id,
                   trajectory>>
    /\ UNCHANGED outside

\* lines 331-346: the next BATCH_SIZE points are added and flushed
flush_batch ==
    /\ pc = "store_points"
    /\ Len(optimized_points) - i >= BATCH_SIZE
    /\ session' = [session EXCEPT !.points =
                      @ \o PointRows(trajectory.id, optimized_points,
                                     i, i + BATCH_SIZE)]
    /\ i' = i + BATCH_SIZE
    /\ UNCHANGED <<pc, algorithm, params, path_points, radius, angle,
                   optimized_points, metrics, error, result, db, stats, wall_id,
                   trajectory>>
    /\ UNCHANGED outside

\* lines 348-349: the points left over after the last full batch are added
add_remaining ==
    /\ pc = "store_points"
    /\ Len(optimized_points) - i < BATCH_SIZE
    /\ session' = [session EXCEPT !.points =
                      @ \o PointRows(trajectory.id, optimized_points,
                                     i, Len(optimized_points))]
    /\ i' = Len(optimized_points)
    /\ pc' = "commit"
    /\ UNCHANGED <<algorithm, params, path_points, radius, angle,
                   optimized_points, metrics, error, result, db, stats, wall_id,
                   trajectory>>
    /\ UNCHANGED outside

\* db.commit(): the session's rows become the store's, all at once
Commit(store, pending) ==
    [trajectories |-> store.trajectories \o pending.trajectories,
     points |-> store.points \o pending.points]

\* mutant: total_points is read from the Trajectory row, which never sets it
commit_row_total ==
    /\ pc = "commit"
    /\ db' = Commit(db, session)
    /\ session' = EmptyStore
    /\ result' = [trajectory_id |-> trajectory.id,
                  algorithm |-> algorithm,
                  total_points |-> 0,
                  total_length |-> metrics.total_length,
                  coverage_percentage |-> metrics.coverage_percentage,
                  estimated_duration_minutes |-> metrics.estimated_duration,
                  status |-> trajectory.status]
    /\ pc' = "done"
    /\ UNCHANGED <<algorithm, params, path_points, i, radius, angle,
                   optimized_points, metrics, error, stats, wall_id, trajectory>>
    /\ UNCHANGED outside

\* line 351 and lines 57-71: commit, then the PlanningResult is returned
commit ==
    /\ pc = "commit"
    /\ db' = Commit(db, session)
    /\ session' = EmptyStore
    /\ result' = [trajectory_id |-> trajectory.id,
                  algorithm |-> algorithm,
                  total_points |-> Len(optimized_points),
                  total_length |-> metrics.total_length,
                  coverage_percentage |-> metrics.coverage_percentage,
                  estimated_duration_minutes |-> metrics.estimated_duration,
                  status |-> trajectory.status]
    /\ pc' = "done"
    /\ UNCHANGED <<algorithm, params, path_points, i, radius, angle,
                   optimized_points, metrics, error, stats, wall_id, trajectory>>
    /\ UNCHANGED outside

\* a flush or the commit fails (the database raises): lines 73-76
db_error ==
    /\ \/ pc = "store"
       \/ pc = "store_points" /\ Len(optimized_points) - i >= BATCH_SIZE
       \/ pc = "commit"
    /\ Raise("SQLAlchemyError")
    /\ UNCHANGED <<algorithm, params, path_points, i, radius, angle,
                   optimized_points, metrics, result, db, stats, wall_id,
                   trajectory>>
    /\ UNCHANGED outside

(***************************************************************************)
(* get_trajectory_stats (trajectories.py:143-182), a request of its own    *)
(***************************************************************************)
TrajectoryIds == {1, 2}

PointsOf(store, id) == SelectSeq(store.points, LAMBDA r : r.trajectory_id = id)

\* .order_by(TrajectoryPoint.sequence_number)
OrderBySequence(rows) ==
    [k \in 1..Len(rows) |->
        rows[CHOOSE n \in 1..Len(rows) :
               Cardinality({m \in 1..Len(rows) :
                  \/ rows[m].sequence_number < rows[n].sequence_number
                  \/ rows[m].sequence_number = rows[n].sequence_number /\ m < n}) = k - 1]]

StatsDistance(prev, curr) ==
    Sqrt100((curr.x - prev.x) * (curr.x - prev.x) + (curr.y - prev.y) * (curr.y - prev.y)
            + (curr.z - prev.z) * (curr.z - prev.z))

RECURSIVE StatsLength(_, _, _)
StatsLength(rows, k, which) ==
    IF k > Len(rows) THEN 0
    ELSE (IF \/ which = "total"
             \/ which = "cutting" /\ rows[k].tool_active
             \/ which = "rapid" /\ ~rows[k].tool_active
          THEN StatsDistance(rows[k - 1], rows[k]) ELSE 0)
         + StatsLength(rows, k + 1, which)

TrajectoryStats(store, id) ==
    LET points_list == OrderBySequence(PointsOf(store, id))
        total_points == Len(points_list)
        cutting_points == Len(SelectSeq(points_list, LAMBDA r : r.tool_active))
    IN [status_code |-> 200, trajectory_id |-> id,
        total_points |-> total_points, cutting_points |-> cutting_points,
        rapid_points |-> total_points - cutting_points,
        total_length |-> StatsLength(points_list, 2, "total"),
        cutting_length |-> StatsLength(points_list, 2, "cutting"),
        rapid_length |-> StatsLength(points_list, 2, "rapid")]

\* The route reads the committed store only; it is served before or after
\* the planning call, whose uncommitted rows no other session sees.
get_trajectory_stats ==
    /\ pc \in {"idle", "done", "failed"}
    /\ \E id \in TrajectoryIds :
          stats' = IF \E k \in 1..Len(db.trajectories) : db.trajectories[k].id = id
                   THEN TrajectoryStats(db, id)
                   ELSE [NoStats EXCEPT !.status_code = 404, !.trajectory_id = id]
    /\ UNCHANGED <<pc, algorithm, params, path_points, i, radius, angle,
                   optimized_points, metrics, error, result, session, db,
                   wall_id, trajectory>>
    /\ UNCHANGED outside

Next ==
    \/ plan_trajectory
    \/ _execute_algorithm
    \/ _plan_boustrophedon
    \/ _plan_spiral
    \/ _plan_zigzag
    \/ optimize_path
    \/ calculate_path_metrics
    \/ add_trajectory
    \/ flush_batch
    \/ add_remaining
    \/ commit
    \/ db_error
    \/ get_trajectory_stats

Spec == Init /\ [][Next]_vars

(***************************************************************************)
(* Vocabulary of the properties                                            *)
(***************************************************************************)
PlannerRunning == pc \in KnownAlgorithms

\* the planner has returned its sequence
Planned == pc \in {"optimize", "metrics", "store", "store_points", "commit", "done"}

Optimized == pc \in {"metrics", "store", "store_points", "commit", "done"}

Measured == pc \in {"store", "store_points", "commit", "done"}

\* the parameter sets the planners' contract covers
ValidParameters ==
    /\ params.robot_width > 0
    /\ params.resolution > 0
    /\ params.overlap_percentage >= 0 /\ params.overlap_percentage < 100
    /\ params.wall_width > 0 /\ params.wall_height > 0

\* pt lies on the wall shrunk by half the robot width on every side
\* (doubled, so that no half is rounded)
InShrunkWall(pt) ==
    /\ params.robot_width <= 2 * pt.x
    /\ 2 * pt.x <= 2 * params.wall_width - params.robot_width
    /\ params.robot_width <= 2 * pt.y
    /\ 2 * pt.y <= 2 * params.wall_height - params.robot_width

\* pt lies in the rectangle obstacle's extent grown by half the robot width
\* on every side, boundary included
InExpandedExtent(pt, ob) ==
    /\ ob.type = "rectangle"
    /\ 2 * Abs(pt.x - ob.center_x) <= ob.width + params.robot_width
    /\ 2 * Abs(pt.y - ob.center_y) <= ob.height + params.robot_width

IsFree(pt) ==
    \A k \in 1..Len(params.obstacles) : ~InExpandedExtent(pt, params.obstacles[k])

\* an inserted rapid marker; the planners emit only active linear points
IsMarker(pt) == ~pt.tool_active /\ pt.motion_type = "rapid"

\* the bound on the endless spiral loop cuts no run with valid parameters
SpiralBoundNotReached ==
    (pc = "spiral" /\ ValidParameters) => Len(path_points) < MaxPoints

(***************************************************************************)
(* C1: for each of the three strategies and every valid parameter set,    *)
(* every point the planner emits lies on the wall shrunk by half the      *)
(* robot width: rw/2 <= x <= W - rw/2 and rw/2 <= y <= H - rw/2.          *)
(* The zigzag planner breaks it: pass 0 starts at x = 0.                   *)
(***************************************************************************)
C1_PointsWithinBounds ==
    ValidParameters =>
        \A k \in 1..Len(path_points) : InShrunkWall(path_points[k])

(***************************************************************************)
(* C2: a sampled candidate is emitted if and only if it is free: no       *)
(* emitted point lies in a rectangle obstacle's extent expanded by half   *)
(* the robot width (boundary included), and each step of each planner     *)
(* appends exactly the free ones among the candidates it samples, in      *)
(* order, so a row crossing an obstacle has a gap over the buffered range.*)
(***************************************************************************)
C2_NoPointInObstacle ==
    \A k \in 1..Len(path_points) : IsFree(path_points[k])

C2_StepEmitsFree ==
    /\ (pc = "boustrophedon" /\ i' = i + 1) =>
          path_points' = path_points \o
              SelectSeq(BoustrophedonCandidates(params, i), IsFree)
    /\ (pc = "zigzag" /\ i' = i + 1) =>
          path_points' = path_points \o
              SelectSeq(ZigzagCandidates(params, i), IsFree)
    /\ (pc = "spiral" /\ pc' = "spiral") =>
          path_points' = path_points \o
              SelectSeq(<<SpiralCandidate(params, radius, angle)>>, IsFree)

C2_EmittedIffFree == []C2_NoPointInObstacle /\ [][C2_StepEmitsFree]_vars

\* a right-to-left row that crosses the obstacle has been swept: the sample
\* right of the buffered range was emitted, the samples inside were skipped
C2_Witness ==
    /\ pc = "boustrophedon"
    /\ i = 2
    /\ params.obstacles = <<Rect(150, 150, 50, 50)>>
    /\ \E c \in {BoustrophedonCandidates(params, 1)[j] :
                    j \in 1..Len(BoustrophedonCandidates(params, 1))} :
          ~IsFree(c)
    /\ \E k \in 1..Len(path_points) :
          path_points[k].y = half_width(params) + effective_width(params)

(***************************************************************************)
(* C3: a planning call with overlap_percentage = 100, for any of the      *)
(* three algorithms, fails with an InvalidParameter error before a        *)
(* planner generates a point: no point is emitted, no arithmetic error is *)
(* raised and no planner returns.  The service has no such check.         *)
(***************************************************************************)
C3_FullOverlapRejected ==
    (algorithm \in KnownAlgorithms /\ params.overlap_percentage = 100) =>
        /\ path_points = <<>>
        /\ error \in {"", "InvalidParameter"}
        /\ ~Planned

(***************************************************************************)
(* C4: when the robot is wider than the surface in both dimensions, each  *)
(* of the three planners returns an empty sequence, and the optimizer and *)
(* the metrics then give zero points, total_length 0 and coverage 0.      *)
(* The zigzag planner returns two points there.                            *)
(***************************************************************************)
C4_DegenerateIsEmpty ==
    (/\ algorithm \in KnownAlgorithms
     /\ params.robot_width > params.wall_width
     /\ params.robot_width > params.wall_height
     /\ Planned) =>
        /\ path_points = <<>>
        /\ Optimized => optimized_points = <<>>
        /\ Measured => metrics = NoMetrics

(***************************************************************************)
(* C5: a call whose algorithm name is not boustrophedon, spiral or zigzag *)
(* fails with the unknown-algorithm error (ValueError): no planner runs,  *)
(* no result is returned, no trajectory row or point is stored.           *)
(***************************************************************************)
C5_UnknownAlgorithmFails ==
    (algorithm \notin KnownAlgorithms /\ pc \notin {"idle", "execute"}) =>
        /\ pc = "failed"
        /\ error = "ValueError"
        /\ path_points = <<>>
        /\ optimized_points = <<>>
        /\ result = NoResult
        /\ session = EmptyStore
        /\ db = EmptyStore

C5_Witness ==
    /\ pc = "failed"
    /\ algorithm = "voronoi"
    /\ error = "ValueError"

RECURSIVE RectangleArea(_, _)
RectangleArea(obs, n) ==
    IF n = 0 THEN 0
    ELSE RectangleArea(obs, n - 1)
         + (IF obs[n].type = "rectangle" THEN obs[n].width * obs[n].height ELSE 0)

ObstaclesFillWall ==
    RectangleArea(params.obstacles, Len(params.obstacles))
        >= params.wall_width * params.wall_height

C7_CoverageInRange ==
    Measured =>
        /\ 0 <= metrics.coverage_percentage
        /\ metrics.coverage_percentage <= 100
        /\ ObstaclesFillWall => metrics.coverage_percentage = 0

\* a path with working moves on a wall whose obstacles sum to its area
C7_Witness ==
    /\ Measured
    /\ ObstaclesFillWall
    /\ metrics.estimated_duration > 0
    /\ metrics.coverage_percentage = 0

(***************************************************************************)
(* C8: total_length of the metrics is the sum of the 3D distances of the  *)
(* consecutive point pairs (0 below two points), and the statistics route *)
(* recomputes the same total_length from the trajectory's stored points.  *)
(***************************************************************************)
RECURSIVE PairwiseLength(_, _)
PairwiseLength(pts, n) ==
    IF n < 2 THEN 0
    ELSE PairwiseLength(pts, n - 1)
         + Sqrt100((pts[n].x - pts[n - 1].x) * (pts[n].x - pts[n - 1].x)
                   + (pts[n].y - pts[n - 1].y) * (pts[n].y - pts[n - 1].y)
                   + (pts[n].z - pts[n - 1].z) * (pts[n].z - pts[n - 1].z))

C8_TotalLength ==
    /\ Measured =>
          metrics.total_length = PairwiseLength(optimized_points, Len(optimized_points))
    /\ (pc = "done" /\ stats.status_code = 200
           /\ stats.trajectory_id = result.trajectory_id) =>
          /\ stats.total_length = result.total_length
          /\ stats.total_length = metrics.total_length

\* the statistics of a stored trajectory with rapid and working moves
C8_Witness ==
    /\ pc = "done"
    /\ stats.status_code = 200
    /\ stats.trajectory_id = result.trajectory_id
    /\ stats.rapid_length > 0
    /\ stats.cutting_length > 0

(***************************************************************************)
(* C9: for a non-empty input the optimizer's output starts with the first *)
(* input point and ends with the last input point, unchanged; a rapid     *)
(* marker is never the first or the last element.                          *)
(***************************************************************************)
C9_EndpointsKept ==
    (Optimized /\ path_points # <<>>) =>
        /\ optimized_points # <<>>
        /\ optimized_points[1] = path_points[1]
        /\ optimized_points[Len(optimized_points)] = path_points[Len(path_points)]
        /\ ~IsMarker(optimized_points[1])
        /\ ~IsMarker(optimized_points[Len(optimized_points)])

\* the optimizer pruned interior points and inserted a marker before the last
C9_Witness ==
    /\ Optimized
    /\ Len(path_points) >= 3
    /\ Len(optimized_points) >= 3
    /\ IsMarker(optimized_points[Len(optimized_points) - 1])
    /\ Len(SelectSeq(optimized_points, LAMBDA q : ~IsMarker(q))) < Len(path_points)

(***************************************************************************)
(* C10: the optimizer never alters or reorders planner points: its output *)
(* without the rapid markers is a subsequence of the input, every field   *)
(* unchanged, and every marker is followed by a planner point with the    *)
(* marker's (x, y).                                                        *)
(***************************************************************************)
\* a[ia..] can be matched, in order, inside b[ib..]
RECURSIVE SubsequenceFrom(_, _, _, _)
SubsequenceFrom(a, b, ia, ib) ==
    IF ia > Len(a) THEN TRUE
    ELSE IF ib > Len(b) THEN FALSE
    ELSE IF a[ia] = b[ib] THEN SubsequenceFrom(a, b, ia + 1, ib + 1)
    ELSE SubsequenceFrom(a, b, ia, ib + 1)

C10_PlannerPointsUnchanged ==
    Optimized =>
        /\ SubsequenceFrom(SelectSeq(optimized_points, LAMBDA q : ~IsMarker(q)),
                           path_points, 1, 1)
        /\ \A k \in 1..Len(optimized_points) :
              IsMarker(optimized_points[k]) =>
                 /\ k < Len(optimized_points)
                 /\ ~IsMarker(optimized_points[k + 1])
                 /\ optimized_points[k + 1].x = optimized_points[k].x
                 /\ optimized_points[k + 1].y = optimized_points[k].y

\* an interior point with a non-default orientation survived the pruning,
\* another was dropped, and a marker was inserted
C10_Witness ==
    /\ Optimized
    /\ \E k \in 2..(Len(optimized_points) - 1) :
          ~IsMarker(optimized_points[k]) /\ optimized_points[k].orientation # 0
    /\ \E k \in 1..Len(optimized_points) : IsMarker(optimized_points[k])
    /\ Len(SelectSeq(optimized_points, LAMBDA q : ~IsMarker(q))) < Len(path_points)

(***************************************************************************)
(* C11: the optimizer's output is no longer than its input plus the rapid *)
(* markers inserted, with at most one marker for each consecutive pair of *)
(* the pruned sequence; and for an input of three or more points whose    *)
(* interior points are all collinear-reducible the output has no more     *)
(* points than the input.                                                  *)
(***************************************************************************)
MarkerCount(pts) == Len(SelectSeq(pts, IsMarker))

InteriorAllCollinear(pts) ==
    \A k \in 2..(Len(pts) - 1) : _is_collinear(pts[k - 1], pts[k], pts[k + 1])

C11_LengthBound ==
    Optimized =>
        LET kept == Len(optimized_points) - MarkerCount(optimized_points)
        IN /\ kept <= Len(path_points)
           /\ Len(optimized_points) <= Len(path_points) + MarkerCount(optimized_points)
           /\ MarkerCount(optimized_points) <= Max(0, kept - 1)
           /\ \A k \in 1..(Len(optimized_points) - 1) :
                 ~(IsMarker(optimized_points[k]) /\ IsMarker(optimized_points[k + 1]))
           /\ (Len(path_points) >= 3 /\ InteriorAllCollinear(path_points)) =>
                 Len(optimized_points) <= Len(path_points)

\* every interior point of a three-row sweep was pruned and one marker added
C11_Witness ==
    /\ Optimized
    /\ Len(path_points) >= 9
    /\ InteriorAllCollinear(path_points)
    /\ Len(optimized_points) = 3
    /\ MarkerCount(optimized_points) = 1

(***************************************************************************)
(* C12: the collinearity pruning keeps the corners of the path: of a      *)
(* boustrophedon raw path it keeps the first and the last emitted point   *)
(* of every row, for every valid resolution (the default 0.01 included)   *)
(* and every row spacing, so the optimized path still visits every row.   *)
(* At the default resolution the cross product at a row end is            *)
(* resolution * spacing = 0.01 * 0.08 < 0.001 and the corner is pruned.    *)
(***************************************************************************)
\* the points _plan_boustrophedon emits for row k
EmittedRow(k) == FreePoints(BoustrophedonCandidates(params, k), params)

Holds(pts, pt) == \E n \in 1..Len(pts) : pts[n] = pt

C12_RowEndsKept ==
    (Optimized /\ algorithm = "boustrophedon" /\ ValidParameters) =>
        \A k \in 0..(BoustrophedonRows(params) - 1) :
            EmittedRow(k) # <<>> =>
                /\ Holds(optimized_points, EmittedRow(k)[1])
                /\ Holds(optimized_points, EmittedRow(k)[Len(EmittedRow(k))])

(***************************************************************************)
(* C13: in the optimized sequence a rapid marker appears only at a gap of *)
(* the raw planner output: the points before and after the marker were    *)
(* consecutive in the planner's output and more than the rapid threshold  *)
(* apart.  So a run of raw points sampled consecutively within one row,   *)
(* each at most 0.05 from the next, has no marker between its first and   *)
(* last point and is still traversed as a working move.                   *)
(* The pruning runs first and leaves only the ends of such a run, which   *)
(* are more than 0.05 apart: the marker is inserted inside the row.        *)
(***************************************************************************)
\* a and b are consecutive in the planner's output and form a gap
IsRawGap(a, b) ==
    \E j \in 1..(Len(path_points) - 1) :
        /\ path_points[j] = a
        /\ path_points[j + 1] = b
        /\ _calculate_distance(a.x, a.y, b.x, b.y, 0, 0) > 100 * RAPID_THRESHOLD

C13_MarkersOnlyAtRawGaps ==
    Optimized =>
        \A k \in 1..Len(optimized_points) :
            IsMarker(optimized_points[k]) =>
                /\ 1 < k /\ k < Len(optimized_points)
                /\ IsRawGap(optimized_points[k - 1], optimized_points[k + 1])

(***************************************************************************)
(* C16: every PathPoint a planner produces, and every point of the        *)
(* optimized sequence, has an orientation in the half-open range          *)
(* (-pi, pi].  The spiral planner tags a point with angle + pi/2 for an   *)
(* angle in [0, 2*pi) and never normalizes it.                             *)
(***************************************************************************)
InHalfOpenTurn(o) == -Pi < o /\ o <= Pi

C16_OrientationNormalized ==
    /\ \A k \in 1..Len(path_points) : InHalfOpenTurn(path_points[k].orientation)
    /\ \A k \in 1..Len(optimized_points) :
          InHalfOpenTurn(optimized_points[k].orientation)

(***************************************************************************)
(* C18: a boustrophedon call on an obstacle-free wall whose width and     *)
(* height both exceed the robot width (e.g. 3 x 3, robot width 0.1,       *)
(* overlap 20, resolution 0.05) succeeds: the planner returns points, the *)
(* call fails only if the database does, and the result it returns has a  *)
(* trajectory id, status completed and total_points > 0.                  *)
(***************************************************************************)
OpenWallBoustrophedon ==
    /\ algorithm = "boustrophedon"
    /\ ValidParameters
    /\ params.obstacles = <<>>
    /\ params.wall_width > params.robot_width
    /\ params.wall_height > params.robot_width

C18_BoustrophedonSucceeds ==
    OpenWallBoustrophedon =>
        /\ Planned => path_points # <<>>
        /\ pc = "failed" => error = "SQLAlchemyError"
        /\ pc = "done" =>
              /\ result.trajectory_id > 0
              /\ result.status = "completed"
              /\ result.total_points > 0
              /\ \E t \in 1..Len(db.trajectories) :
                    db.trajectories[t].id = result.trajectory_id

\* the request of test_plan_trajectory has returned its result
C18_Witness ==
    /\ pc = "done"
    /\ OpenWallBoustrophedon
    /\ params.wall_width = 300 /\ params.wall_height = 300
    /\ params.robot_width = 100 /\ params.overlap_percentage = 20
    /\ params.resolution = 50
    /\ result.total_points > 0
    /\ result.status = "completed"

(***************************************************************************)
(* The planners as functions of their parameters: what _execute_algorithm *)
(* returns for a call that runs alone (defined when the planner returns)  *)
(***************************************************************************)
RECURSIVE BoustrophedonFrom(_, _)
BoustrophedonFrom(p, k) ==
    IF k >= BoustrophedonRows(p) THEN <<>>
    ELSE FreePoints(BoustrophedonCandidates(p, k), p) \o BoustrophedonFrom(p, k + 1)

RECURSIVE ZigzagFrom(_, _)
ZigzagFrom(p, k) ==
    IF k >= ZigzagPasses(p) THEN <<>>
    ELSE FreePoints(ZigzagCandidates(p, k), p) \o ZigzagFrom(p, k + 1)

RECURSIVE SpiralFrom(_, _, _)
SpiralFrom(p, r, a) ==
    IF r >= SpiralMaxRadius(p) THEN <<>>
    ELSE LET c == SpiralCandidate(p, r, a)
             wraps == a + SpiralAngleStep(p, r) >= TwoPi
         IN (IF _is_within_bounds(c.x, c.y, p) /\ _is_point_free(c.x, c.y, p)
             THEN <<c>> ELSE <<>>)
            \o SpiralFrom(p, IF wraps THEN r + effective_width(p) ELSE r,
                          IF wraps THEN 0 ELSE a + SpiralAngleStep(p, r))

PlannedAlone(alg, p) ==
    IF alg = "boustrophedon" THEN BoustrophedonFrom(p, 0)
    ELSE IF alg = "spiral" THEN SpiralFrom(p, half_width(p), 0)
    ELSE ZigzagFrom(p, 0)

(***************************************************************************)
(* C19: circle obstacles have no effect on planning: for every parameter  *)
(* set and every strategy, the planner's point sequence, the optimized    *)
(* sequence and every metric (total_length, coverage_percentage,          *)
(* estimated_duration) of a call equal those of the same call with the    *)
(* circle obstacles left out of the obstacle list.                        *)
(***************************************************************************)
HasCircle(p) == \E k \in 1..Len(p.obstacles) : p.obstacles[k].type = "circle"

WithoutCircles(p) ==
    [p EXCEPT !.obstacles = SelectSeq(p.obstacles, LAMBDA ob : ob.type # "circle")]

C19_CirclesIgnored ==
    (Planned /\ algorithm \in KnownAlgorithms /\ HasCircle(params)) =>
        LET q == WithoutCircles(params)
            alone == PlannedAlone(algorithm, q)
        IN /\ path_points = alone
           /\ Optimized => optimized_points = _optimize_path(alone)
           /\ Measured =>
                 metrics = _calculate_path_metrics(_optimize_path(alone), q)

\* a measured sweep that sampled points inside a circle next to a rectangle
C19_Witness ==
    /\ Measured
    /\ HasCircle(params)
    /\ Len(params.obstacles) = 2
    /\ metrics.total_length > 0
    /\ \E k \in 1..Len(path_points), n \in 1..Len(params.obstacles) :
          LET ob == params.obstacles[n]
          IN /\ ob.type = "circle"
             /\ (path_points[k].x - ob.center_x) * (path_points[k].x - ob.center_x)
                  + (path_points[k].y - ob.center_y) * (path_points[k].y - ob.center_y)
                  <= ob.radius * ob.radius

(***************************************************************************)
(* GeometryUtils.normalize_angle (geometry.py:88-95), one loop test per   *)
(* step.  2 * math.pi is twice Pi here.  The inputs are the multiples of  *)
(* pi/2 up to six turns either way, and their neighbours.                 *)
(***************************************************************************)
\* the locals of the running planning task
task_vars == <<pc, algorithm, params, path_points, i, radius, angle,
               optimized_points, metrics, error, result, wall_id, trajectory>>

MaxQuarterTurns == 12

AngleInputs ==
    {k * HalfPi + d : k \in (-MaxQuarterTurns)..MaxQuarterTurns, d \in {-1, 0, 1}}

normalize_angle ==
    /\ \/ /\ normalized.pc = "while_above"
          /\ normalized' =
                IF normalized.angle > Pi
                THEN [normalized EXCEPT !.angle = @ - 2 * Pi]
                ELSE [normalized EXCEPT !.pc = "while_below"]
       \/ /\ normalized.pc = "while_below"
          /\ normalized' =
                IF normalized.angle < -Pi
                THEN [normalized EXCEPT !.angle = @ + 2 * Pi]
                ELSE [normalized EXCEPT !.pc = "returned"]
    /\ UNCHANGED <<task_vars, session, db, stats, other, walls, obstacles, response>>

\* normalize_angle has been called with one of the inputs
InitAngle ==
    /\ pc = "idle"
    /\ algorithm = ""
    /\ params = NoParams
    /\ path_points = <<>>
    /\ i = 0
    /\ radius = 0
    /\ angle = 0
    /\ optimized_points = <<>>
    /\ metrics = NoMetrics
    /\ error = ""
    /\ result = NoResult
    /\ session = EmptyStore
    /\ db = EmptyStore
    /\ stats = NoStats
    /\ wall_id = 0
    /\ trajectory = NoTrajectory
    /\ other = FreshTask
    /\ walls = <<>>
    /\ obstacles = <<>>
    /\ response = NoResponse
    /\ \E a \in AngleInputs :
          normalized = [pc |-> "while_above", input |-> a, angle |-> a]

NextAngle == normalize_angle

SpecAngle == InitAngle /\ [][NextAngle]_vars

(***************************************************************************)
(* C17: for every finite input angle normalize_angle terminates and       *)
(* returns a value in the half-open range (-pi, pi] that differs from the *)
(* input by an integer multiple of 2*pi, so -pi itself is never returned. *)
(* The second loop runs while angle < -pi, so -pi is returned as it is.   *)
(***************************************************************************)
C17_NormalizedHalfOpen ==
    normalized.pc = "returned" =>
        /\ -Pi < normalized.angle
        /\ normalized.angle <= Pi
        /\ (normalized.input - normalized.angle) % (2 * Pi) = 0

(***************************************************************************)
(* Two planning requests served by the one event loop.  Each request runs *)
(* planning.plan_trajectory in a task of its own, with its own            *)
(* PathPlanningService() (planning.py:47) and its own locals; the loop    *)
(* passes control to the other task only where the running one awaits     *)
(* (the flushes and the commit of _create_trajectory_record), has not     *)
(* started, or has returned.  The variables pc .. trajectory hold the     *)
(* locals of the running task and `other` those of the suspended one.     *)
(* The engine's StaticPool (database.py:19) hands every session the same  *)
(* connection, so `session`, the connection's open transaction, is shared *)
(* by the two tasks, as are the committed rows.                            *)
(***************************************************************************)
ThisTask ==
    [pc |-> pc, algorithm |-> algorithm, params |-> params,
     path_points |-> path_points, i |-> i, radius |-> radius, angle |-> angle,
     optimized_points |-> optimized_points, metrics |-> metrics, error |-> error,
     result |-> result, wall_id |-> wall_id, trajectory |-> trajectory]

AwaitPoints == {"idle", "store_points", "commit", "done", "failed"}

\* the requests the two clients send
ConcurrentCalls ==
    { <<"boustrophedon", <<300, 300, 50>>, <<>>>>,
      <<"spiral", <<300, 300, 50>>, <<>>>>,
      <<"zigzag", <<300, 300, 50>>, <<Rect(150, 150, 50, 50)>>>>,
      <<"boustrophedon", <<130, 300, DEFAULT_RESOLUTION>>, <<>>>> }

\* lines 45-51, for a request of ConcurrentCalls
plan_trajectory_in_task ==
    /\ pc = "idle"
    /\ \E call \in ConcurrentCalls :
          /\ algorithm' = call[1]
          /\ params' = _prepare_planning_parameters(call[2][1], call[2][2], call[3],
                                                    100, 20, call[2][3])
    /\ wall_id' = 1
    /\ pc' = "execute"
    /\ UNCHANGED <<path_points, i, radius, angle, optimized_points, metrics,
                   error, result, session, db, stats, trajectory>>
    /\ UNCHANGED outside

\* mutant: path_points is an attribute of the class, which every service
\* instance appends to
switch_class_points ==
    /\ pc \in AwaitPoints
    /\ other' = ThisTask
    /\ pc' = other.pc
    /\ algorithm' = other.algorithm
    /\ params' = other.params
    /\ path_points' = path_points
    /\ i' = other.i
    /\ radius' = other.radius
    /\ angle' = other.angle
    /\ optimized_points' = other.optimized_points
    /\ metrics' = other.metrics
    /\ error' = other.error
    /\ result' = other.result
    /\ wall_id' = other.wall_id
    /\ trajectory' = other.trajectory
    /\ UNCHANGED <<session, db, stats, walls, obstacles, response, normalized>>

\* mutant: the parameters are kept on a service object the requests share
switch_shared_params ==
    /\ pc \in AwaitPoints
    /\ other' = ThisTask
    /\ pc' = other.pc
    /\ algorithm' = other.algorithm
    /\ params' = IF other.pc = "idle" THEN other.params ELSE params
    /\ path_points' = other.path_points
    /\ i' = other.i
    /\ radius' = other.radius
    /\ angle' = other.angle
    /\ optimized_points' = other.optimized_points
    /\ metrics' = other.metrics
    /\ error' = other.error
    /\ result' = other.result
    /\ wall_id' = other.wall_id
    /\ trajectory' = other.trajectory
    /\ UNCHANGED <<session, db, stats, walls, obstacles, response, normalized>>

\* the event loop suspends the running task and resumes the other
switch ==
    /\ pc \in AwaitPoints
    /\ other' = ThisTask
    /\ pc' = other.pc
    /\ algorithm' = other.algorithm
    /\ params' = other.params
    /\ path_points' = other.path_points
    /\ i' = other.i
    /\ radius' = other.radius
    /\ angle' = other.angle
    /\ optimized_points' = other.optimized_points
    /\ metrics' = other.metrics
    /\ error' = other.error
    /\ result' = other.result
    /\ wall_id' = other.wall_id
    /\ trajectory' = other.trajectory
    /\ UNCHANGED <<session, db, stats, walls, obstacles, response, normalized>>

NextCalls ==
    \/ plan_trajectory_in_task
    \/ _execute_algorithm
    \/ _plan_boustrophedon
    \/ _plan_spiral
    \/ _plan_zigzag
    \/ optimize_path
    \/ calculate_path_metrics
    \/ add_trajectory
    \/ flush_batch
    \/ add_remaining
    \/ commit
    \/ db_error
    \/ switch

SpecCalls == Init /\ [][NextCalls]_vars

\* the planner of task t has returned / t has been optimized / measured
TaskPlanned(t) ==
    t.pc \in {"optimize", "metrics", "store", "store_points", "commit", "done"}

TaskOptimized(t) == t.pc \in {"metrics", "store", "store_points", "commit", "done"}

TaskMeasured(t) == t.pc \in {"store", "store_points", "commit", "done"}

(***************************************************************************)
(* C14: each planner is deterministic: two calls of the same planner with *)
(* identical PlanningParameters (surface, obstacles, robot width,         *)
(* overlap, resolution) yield identical point sequences, element by       *)
(* element and field by field, whether the second call runs after the     *)
(* first or between its steps.                                             *)
(***************************************************************************)
SameRequest == algorithm = other.algorithm /\ params = other.params

C14_Deterministic ==
    (TaskPlanned(ThisTask) /\ TaskPlanned(other) /\ SameRequest) =>
        /\ Len(path_points) = Len(other.path_points)
        /\ \A k \in 1..Len(path_points) :
              /\ path_points[k].x = other.path_points[k].x
              /\ path_points[k].y = other.path_points[k].y
              /\ path_points[k].z = other.path_points[k].z
              /\ path_points[k].orientation = other.path_points[k].orientation
              /\ path_points[k].tool_active = other.path_points[k].tool_active
              /\ path_points[k].motion_type = other.path_points[k].motion_type
              /\ path_points[k].feed_rate = other.path_points[k].feed_rate

\* the same spiral request has been planned twice, the second time while
\* the first call was waiting for the database
C14_Witness ==
    /\ SameRequest
    /\ algorithm = "spiral"
    /\ pc = "optimize"
    /\ other.pc = "store_points"
    /\ Len(path_points) >= 5

(***************************************************************************)
(* C15: for every interleaving of two planning calls, each call's point   *)
(* sequence, optimized sequence and metrics are those the call produces   *)
(* when it runs alone, and no step of the running call reads or writes    *)
(* the parameters or the intermediate sequences of the other.             *)
(***************************************************************************)
AsAlone(t) ==
    LET alone == PlannedAlone(t.algorithm, t.params)
    IN /\ TaskPlanned(t) => t.path_points = alone
       /\ TaskOptimized(t) => t.optimized_points = _optimize_path(alone)
       /\ TaskMeasured(t) =>
             t.metrics = _calculate_path_metrics(_optimize_path(alone), t.params)
       /\ t.pc = "done" =>
             /\ t.result.total_points = Len(_optimize_path(alone))
             /\ t.result.total_length = t.metrics.total_length
             /\ t.result.coverage_percentage = t.metrics.coverage_percentage

C15_EachAsAlone == AsAlone(ThisTask) /\ AsAlone(other)

\* a step either passes control (the two tasks change places) or leaves the
\* suspended task as it is
C15_OtherUntouched == other' = other \/ (other' = ThisTask /\ ThisTask' = other)

C15_CallsIsolated == []C15_EachAsAlone /\ [][C15_OtherUntouched]_vars

\* two different requests, one measured and waiting for its flush while the
\* other has been planned in between
C15_Witness ==
    /\ ~SameRequest
    /\ TaskMeasured(other) /\ other.pc = "store_points"
    /\ other.path_points # <<>>
    /\ pc = "metrics"
    /\ path_points # <<>>
    /\ path_points # other.path_points

(***************************************************************************)
(* The wall routes (api/routes/walls.py) and the planning route            *)
(* (api/routes/planning.py) over the stored walls, obstacles,              *)
(* trajectories and points.  A request is served when no planning call is  *)
(* in flight; the planning route runs the service's steps above between    *)
(* its first and its last action.  The commit of a wall route is taken to  *)
(* succeed (a failing one is rolled back and answered 500 by               *)
(* handle_db_error, without a write).  SQLite gives a new row the id       *)
(* max(id) + 1 of its table; the guards of the inserting routes cap the    *)
(* ids handed out by the three tables together at MaxRows.                 *)
(***************************************************************************)
MaxRows == 3

\* the wall and obstacle ids a request may carry: one more than can exist
WallIds == 1..(MaxRows + 1)

ObstacleIds == 1..(MaxRows + 1)

\* WallCreate: width and height gt 0 (pydantic_models.py:38-43)
WallWidths == {200, 300}

WallHeights == {200}

\* WallUpdate: every field is Optional and defaults to None; a given width
\* or height is gt 0, so 0 stands for an omitted one
None == 0

Polygon ==
    [type |-> "polygon", center_x |-> 0, center_y |-> 0,
     width |-> 0, height |-> 0, radius |-> 0]

\* ObstacleCreate bodies: inside every wall, inside the wide wall only,
\* of no size, and a polygon
ObstacleBodies ==
    { Rect(100, 100, 50, 50), Circle(100, 50, 40), Rect(250, 100, 50, 50),
      Rect(100, 100, 0, 50), Polygon }

\* TrajectoryPlanRequest bodies (without wall_id)
PlanRequests ==
    { [algorithm |-> "boustrophedon", robot_width |-> 100,
       overlap_percentage |-> 20, resolution |-> 100] }

NoWall == [id |-> 0, width |-> 0, height |-> 0]

\* select(Wall).where(Wall.id == wall_id) / db.scalar: the row or None
WallById(id) ==
    LET found == SelectSeq(walls, LAMBDA w : w.id = id)
    IN IF found = <<>> THEN NoWall ELSE found[1]

\* Wall.obstacles of wall `id`, as _prepare_planning_parameters reads them
ObstaclesOf(id) ==
    LET rows == SelectSeq(obstacles, LAMBDA o : o.wall_id = id)
    IN [k \in 1..Len(rows) |-> rows[k].geometry]

NextWallId ==
    LET ids == {walls[k].id : k \in 1..Len(walls)}
    IN IF ids = {} THEN 1 ELSE (CHOOSE m \in ids : \A n \in ids : n <= m) + 1

NextObstacleId ==
    LET ids == {obstacles[k].id : k \in 1..Len(obstacles)}
    IN IF ids = {} THEN 1 ELSE (CHOOSE m \in ids : \A n \in ids : n <= m) + 1

\* the ids the three tables have handed out so far
RowsInserted == (NextWallId - 1) + (NextObstacleId - 1) + (NextTrajectoryId - 1)

\* GeometryUtils.validate_obstacle_geometry (geometry.py:9-50)
validate_obstacle_geometry(g, wall_width, wall_height) ==
    IF g.type = "rectangle"
    THEN /\ g.width > 0
         /\ g.height > 0
         /\ 2 * g.center_x - g.width >= 0
         /\ 2 * g.center_x + g.width <= 2 * wall_width
         /\ 2 * g.center_y - g.height >= 0
         /\ 2 * g.center_y + g.height <= 2 * wall_height
    ELSE IF g.type = "circle"
    THEN /\ g.radius > 0
         /\ g.center_x - g.radius >= 0
         /\ g.center_x + g.radius <= wall_width
         /\ g.center_y - g.radius >= 0
         /\ g.center_y + g.radius <= wall_height
    ELSE FALSE

\* calculate_obstacle_bounds (walls.py:50-60); rectangle sizes are even here
calculate_obstacle_bounds(g) ==
    IF g.type = "rectangle"
    THEN [min_x |-> g.center_x - g.width \div 2, min_y |-> g.center_y - g.height \div 2,
          max_x |-> g.center_x + g.width \div 2, max_y |-> g.center_y + g.height \div 2]
    ELSE IF g.type = "circle"
    THEN [min_x |-> g.center_x - g.radius, min_y |-> g.center_y - g.radius,
          max_x |-> g.center_x + g.radius, max_y |-> g.center_y + g.radius]
    ELSE [min_x |-> 0, min_y |-> 0, max_x |-> 0, max_y |-> 0]

ObstacleRow(id, wall, g) ==
    [id |-> id, wall_id |-> wall, geometry |-> g, bounds |-> calculate_obstacle_bounds(g)]

\* the HTTP answer of a route: the status code and, for an HTTPException,
\* its detail
Respond(code, detail) ==
    response' = [status_code |-> code, detail |-> detail]

\* get_wall_or_404 (walls.py:20-29) and get_wall_with_obstacles
\* (planning.py:18-24) raise HTTPException(404); every route re-raises it
\* unhandled, without a write
WallNotFound ==
    /\ Respond(404, "Wall not found")
    /\ UNCHANGED <<walls, obstacles, db>>

\* what the wall routes never touch
beside_walls == <<task_vars, session, stats, other, normalized>>

\* POST /walls (walls.py:62-79)
create_wall ==
    /\ pc = "idle"
    /\ RowsInserted < MaxRows
    /\ \E w \in WallWidths, h \in WallHeights :
          walls' = Append(walls, [id |-> NextWallId, width |-> w, height |-> h])
    /\ Respond(201, "")
    /\ UNCHANGED <<obstacles, db>>
    /\ UNCHANGED beside_walls

\* GET /walls/{wall_id} (walls.py:96-106)
get_wall(id) ==
    /\ pc = "idle"
    /\ IF WallById(id) = NoWall
       THEN WallNotFound
       ELSE /\ Respond(200, "")
            /\ UNCHANGED <<walls, obstacles, db>>
    /\ UNCHANGED beside_walls

\* the fields update_wall sets (walls.py:115-119)
Updated(wall, w, h) ==
    [wall EXCEPT !.width = IF w # None THEN w ELSE @,
                 !.height = IF h # None THEN h ELSE @]

\* mutant: a missing wall is created with the given fields
update_wall_upsert(id, w, h) ==
    /\ pc = "idle"
    /\ IF WallById(id) = NoWall
       THEN /\ walls' = Append(walls, Updated([id |-> id, width |-> 200, height |-> 200], w, h))
            /\ Respond(404, "Wall not found")
            /\ UNCHANGED <<obstacles, db>>
       ELSE /\ walls' = [k \in 1..Len(walls) |->
                            IF walls[k].id = id THEN Updated(walls[k], w, h)
                            ELSE walls[k]]
            /\ \E code \in {200, 500} : Respond(code, "")
            /\ UNCHANGED <<obstacles, db>>
    /\ UNCHANGED beside_walls

\* PUT /walls/{wall_id} (walls.py:108-128).  The route returns the refreshed
\* Wall, whose obstacles relationship is not loaded, to be serialised as a
\* WallResponse: the answer after the commit is 200 or a serialisation 500
update_wall(id, w, h) ==
    /\ pc = "idle"
    /\ IF WallById(id) = NoWall
       THEN WallNotFound
       ELSE /\ walls' = [k \in 1..Len(walls) |->
                            IF walls[k].id = id THEN Updated(walls[k], w, h)
                            ELSE walls[k]]
            /\ \E code \in {200, 500} : Respond(code, "")
            /\ UNCHANGED <<obstacles, db>>
    /\ UNCHANGED beside_walls

\* the rows left after the cascade of db.delete(wall): the relationships
\* Wall.obstacles, Wall.trajectories and Trajectory.points are
\* cascade="all, delete-orphan" (database_models.py:30-31, 78)
TrajectoriesOfWall(id) ==
    {db.trajectories[k].id :
        k \in {n \in 1..Len(db.trajectories) : db.trajectories[n].wall_id = id}}

CascadeDelete(store, id) ==
    [trajectories |-> SelectSeq(store.trajectories, LAMBDA t : t.wall_id # id),
     points |-> SelectSeq(store.points,
                          LAMBDA p : p.trajectory_id \notin TrajectoriesOfWall(id))]

\* mutant: the points of the wall's trajectories are left behind
delete_wall_orphans(id) ==
    /\ pc = "idle"
    /\ IF WallById(id) = NoWall
       THEN WallNotFound
       ELSE /\ walls' = SelectSeq(walls, LAMBDA w : w.id # id)
            /\ obstacles' = SelectSeq(obstacles, LAMBDA o : o.wall_id # id)
            /\ db' = [CascadeDelete(db, id) EXCEPT !.points = db.points]
            /\ Respond(200, "Wall deleted successfully")
    /\ UNCHANGED beside_walls

\* DELETE /walls/{wall_id} (walls.py:130-143)
delete_wall(id) ==
    /\ pc = "idle"
    /\ IF WallById(id) = NoWall
       THEN WallNotFound
       ELSE /\ walls' = SelectSeq(walls, LAMBDA w : w.id # id)
            /\ obstacles' = SelectSeq(obstacles, LAMBDA o : o.wall_id # id)
            /\ db' = CascadeDelete(db, id)
            /\ Respond(200, "Wall deleted successfully")
    /\ UNCHANGED beside_walls

\* POST /walls/{wall_id}/obstacles (walls.py:145-170)
create_obstacle(id, g) ==
    /\ pc = "idle"
    /\ LET wall == WallById(id)
       IN IF wall = NoWall
          THEN WallNotFound
          ELSE IF ~validate_obstacle_geometry(g, wall.width, wall.height)
          THEN /\ Respond(400, "Invalid obstacle geometry")
               /\ UNCHANGED <<walls, obstacles, db>>
          ELSE /\ RowsInserted < MaxRows
               /\ obstacles' = Append(obstacles, ObstacleRow(NextObstacleId, id, g))
               /\ Respond(201, "")
               /\ UNCHANGED <<walls, db>>
    /\ UNCHANGED beside_walls

\* GET /walls/{wall_id}/obstacles (walls.py:172-183)
get_wall_obstacles(id) ==
    /\ pc = "idle"
    /\ IF WallById(id) = NoWall
       THEN WallNotFound
       ELSE /\ Respond(200, "")
            /\ UNCHANGED <<walls, obstacles, db>>
    /\ UNCHANGED beside_walls

\* DELETE /walls/{wall_id}/obstacles/{obstacle_id} (walls.py:185-201): the
\* obstacle is looked up by both ids, the wall itself is not
delete_obstacle(id, obstacle_id) ==
    /\ pc = "idle"
    /\ IF SelectSeq(obstacles, LAMBDA o : o.id = obstacle_id /\ o.wall_id = id) = <<>>
       THEN /\ Respond(404, "Obstacle not found")
            /\ UNCHANGED <<walls, obstacles, db>>
       ELSE /\ obstacles' = SelectSeq(obstacles, LAMBDA o : o.id # obstacle_id)
            /\ Respond(200, "")
            /\ UNCHANGED <<walls, db>>
    /\ UNCHANGED beside_walls

\* POST /planning/plan (planning.py:35-48): the wall is looked up, then the
\* service is called with it; the request has no answer until it ends
plan_trajectory_route(id, request) ==
    /\ pc = "idle"
    /\ LET wall == WallById(id)
       IN IF wall = NoWall
          THEN /\ WallNotFound
               /\ UNCHANGED task_vars
          ELSE /\ RowsInserted < MaxRows
               /\ algorithm' = request.algorithm
               /\ params' = _prepare_planning_parameters(
                                wall.width, wall.height, ObstaclesOf(id),
                                request.robot_width, request.overlap_percentage,
                                request.resolution)
               /\ wall_id' = id
               /\ pc' = "execute"
               /\ response' = NoResponse
               /\ UNCHANGED <<path_points, i, radius, angle, optimized_points,
                              metrics, error, result, trajectory>>
               /\ UNCHANGED <<walls, obstacles, db>>
    /\ UNCHANGED <<session, stats, other, normalized>>

\* planning.py:50-67: the PlanningResult is returned, or the service's
\* exception becomes a 500 (handle_db_error); the request's frame ends
plan_trajectory_answer ==
    /\ pc \in {"done", "failed"}
    /\ IF pc = "done" THEN Respond(200, "")
                      ELSE Respond(500, "Failed to execute planning service")
    /\ pc' = FreshTask.pc
    /\ algorithm' = FreshTask.algorithm
    /\ params' = FreshTask.params
    /\ path_points' = FreshTask.path_points
    /\ i' = FreshTask.i
    /\ radius' = FreshTask.radius
    /\ angle' = FreshTask.angle
    /\ optimized_points' = FreshTask.optimized_points
    /\ metrics' = FreshTask.metrics
    /\ error' = FreshTask.error
    /\ result' = FreshTask.result
    /\ wall_id' = FreshTask.wall_id
    /\ trajectory' = FreshTask.trajectory
    /\ UNCHANGED <<session, db, stats, other, walls, obstacles, normalized>>

(***************************************************************************)
(* The route table: main.py:115-117 mounts the walls, trajectories and     *)
(* planning routers under /api/v1; a path is its sequence of segments and  *)
(* a "{...}" segment of a template takes an integer.                       *)
(***************************************************************************)
IntSegments == {"1", "2", "3"}

IsParam(seg) == seg \in {"{wall_id}", "{obstacle_id}", "{trajectory_id}"}

Prefixed(path) == <<"api", "v1">> \o path

Routes ==
    { <<"POST", Prefixed(<<"walls">>)>>,
      <<"GET", Prefixed(<<"walls">>)>>,
      <<"GET", Prefixed(<<"walls", "{wall_id}">>)>>,
      <<"PUT", Prefixed(<<"walls", "{wall_id}">>)>>,
      <<"DELETE", Prefixed(<<"walls", "{wall_id}">>)>>,
      <<"POST", Prefixed(<<"walls", "{wall_id}", "obstacles">>)>>,
      <<"GET", Prefixed(<<"walls", "{wall_id}", "obstacles">>)>>,
      <<"DELETE", Prefixed(<<"walls", "{wall_id}", "obstacles", "{obstacle_id}">>)>>,
      <<"GET", Prefixed(<<"trajectories">>)>>,
      <<"GET", Prefixed(<<"trajectories", "{trajectory_id}">>)>>,
      <<"GET", Prefixed(<<"trajectories", "{trajectory_id}", "points">>)>>,
      <<"GET", Prefixed(<<"trajectories", "{trajectory_id}", "points-detailed">>)>>,
      <<"DELETE", Prefixed(<<"trajectories", "{trajectory_id}">>)>>,
      <<"GET", Prefixed(<<"trajectories", "{trajectory_id}", "stats">>)>>,
      <<"POST", Prefixed(<<"planning", "plan">>)>>,
      <<"GET", <<>>>>,
      <<"GET", <<"health">>>> }

\* a request path matches a template segment by segment
Matches(path, template) ==
    /\ Len(path) = Len(template)
    /\ \A k \in 1..Len(path) :
          IF IsParam(template[k]) THEN path[k] \in IntSegments
          ELSE path[k] = template[k]

\* the requests tried against the table besides those the routes above serve
OtherRequests ==
    { <<"GET", Prefixed(<<"planning", "algorithms">>)>>,
      <<"GET", Prefixed(<<"planning", "plan">>)>>,
      <<"GET", Prefixed(<<"walls", "1">>)>>,
      <<"POST", Prefixed(<<"trajectories", "2">>)>>,
      <<"GET", Prefixed(<<"planning">>)>> }

\* the router's answer to a request no route serves: 405 when the path
\* matches a route of another method, 404 otherwise; no handler runs
not_found(method, path) ==
    /\ pc = "idle"
    /\ ~\E r \in Routes : r[1] = method /\ Matches(path, r[2])
    /\ IF \E r \in Routes : Matches(path, r[2])
       THEN Respond(405, "Method Not Allowed")
       ELSE Respond(404, "Not Found")
    /\ UNCHANGED <<walls, obstacles, db>>
    /\ UNCHANGED beside_walls

NextWalls ==
    \/ create_wall
    \/ \E id \in WallIds : get_wall(id)
    \/ \E id \in WallIds, w \in WallWidths \cup {None}, h \in WallHeights \cup {None} :
          update_wall(id, w, h)
    \/ \E id \in WallIds : delete_wall(id)
    \/ \E id \in WallIds, g \in ObstacleBodies : create_obstacle(id, g)
    \/ \E id \in WallIds : get_wall_obstacles(id)
    \/ \E id \in WallIds, obstacle_id \in ObstacleIds : delete_obstacle(id, obstacle_id)
    \/ \E id \in WallIds, request \in PlanRequests : plan_trajectory_route(id, request)
    \/ _execute_algorithm
    \/ _plan_boustrophedon
    \/ optimize_path
    \/ calculate_path_metrics
    \/ add_trajectory
    \/ flush_batch
    \/ add_remaining
    \/ commit
    \/ db_error
    \/ plan_trajectory_answer
    \/ \E request \in OtherRequests : not_found(request[1], request[2])

SpecWalls == Init /\ [][NextWalls]_vars

(***************************************************************************)
(* C20: a get-wall, update-wall, delete-wall, add-obstacle, list-obstacles *)
(* or plan-trajectory request addressed to a wall id that is not stored is *)
(* answered with status 404, and the stored walls, obstacles, trajectories *)
(* and points (and the rows pending in the session) are left as they were. *)
(***************************************************************************)
\* a step serving one of the six operations addressed to wall `id`
RequestToWall(id) ==
    \/ get_wall(id)
    \/ \E w \in WallWidths \cup {None}, h \in WallHeights \cup {None} : update_wall(id, w, h)
    \/ delete_wall(id)
    \/ \E g \in ObstacleBodies : create_obstacle(id, g)
    \/ get_wall_obstacles(id)
    \/ \E request \in PlanRequests : plan_trajectory_route(id, request)

\* C20: every request to a wall id that does not exist answers 404 and
\* changes no stored wall, obstacle, trajectory or point
C20_MissingWall404 ==
    [][\A id \in WallIds :
          (WallById(id) = NoWall /\ RequestToWall(id))
          => /\ response'.status_code = 404
             /\ UNCHANGED <<walls, obstacles, db, session>>]_vars

\* a 404 "Wall not found" was answered while a wall, an obstacle and a
\* trajectory with its points are stored
C20_Witness ==
    /\ response = [status_code |-> 404, detail |-> "Wall not found"]
    /\ walls # <<>>
    /\ obstacles # <<>>
    /\ db.trajectories # <<>>
    /\ db.points # <<>>

(***************************************************************************)
(* C21: the list-algorithms operation, GET /api/v1/planning/algorithms,    *)
(* succeeds with status 200 (and returns at least three algorithms).       *)
(***************************************************************************)
AlgorithmsPath == Prefixed(<<"planning", "algorithms">>)

\* C21: a GET of /api/v1/planning/algorithms is answered with status 200
C21_AlgorithmsListed ==
    [][not_found("GET", AlgorithmsPath) => response'.status_code = 200]_vars

(***************************************************************************)
(* C22: on an obstacle-free wall larger than the robot the boustrophedon   *)
(* rows lie at y = robot_width/2 + k * effective width, k = 0, 1, ... in   *)
(* increasing order, all strictly below wall_height - robot_width/2; even  *)
(* rows run left to right with orientation 0, odd rows right to left with  *)
(* orientation pi, x is strictly monotone within a row and the first point *)
(* has orientation 0.                                                      *)
(***************************************************************************)
\* the row a point lies on, by its y alone
RowOf(pt) == (pt.y - half_width(params)) \div effective_width(params)

OnRowGrid(pt) ==
    /\ pt.y >= half_width(params)
    /\ (pt.y - half_width(params)) % effective_width(params) = 0

\* the orientation tag and the direction of travel agree with the row's parity
RowDirection(pt) == IF RowOf(pt) % 2 = 0 THEN 0 ELSE Pi

\* b follows a in the sweep: further along the same row, or first of the next
SweepStep(a, b) ==
    \/ /\ b.y = a.y
       /\ IF RowDirection(a) = 0 THEN b.x > a.x ELSE b.x < a.x
    \/ b.y = a.y + effective_width(params)

\* the claim without its strict upper limit on y
RowsAsSwept ==
    /\ path_points # <<>>
    /\ path_points[1].orientation = 0
    /\ \A n \in 1..Len(path_points) :
          /\ OnRowGrid(path_points[n])
          /\ path_points[n].orientation = RowDirection(path_points[n])
    /\ \A n \in 1..(Len(path_points) - 1) :
          SweepStep(path_points[n], path_points[n + 1])

\* C22: the planner's rows are the grid rows strictly below
\* wall_height - robot_width/2, swept alternately with matching orientation
C22_BoustrophedonRows ==
    (Planned /\ OpenWallBoustrophedon) =>
        /\ RowsAsSwept
        /\ \A n \in 1..Len(path_points) :
              path_points[n].y < params.wall_height - half_width(params)

(***************************************************************************)
(* C23: every zigzag pass is a 45-degree diagonal that matches its         *)
(* orientation tag: its end differs from its start by equal amounts in     *)
(* |x| and |y|, x does not decrease along it, y increases along an         *)
(* even-indexed pass (tag +pi/4) and decreases along an odd-indexed one    *)
(* (tag -pi/4), and it has at least 2 sample points.                       *)
(***************************************************************************)
\* pass is the k-th pass of the planner, as emitted
DiagonalPass(pass, k) ==
    /\ Len(pass) >= 2
    /\ Abs(pass[Len(pass)].x - pass[1].x) = Abs(pass[Len(pass)].y - pass[1].y)
    /\ \A n \in 1..(Len(pass) - 1) :
          /\ pass[n + 1].x >= pass[n].x
          /\ IF k % 2 = 0 THEN pass[n + 1].y > pass[n].y
                          ELSE pass[n + 1].y < pass[n].y
    /\ \A n \in 1..Len(pass) :
          pass[n].orientation = (IF k % 2 = 0 THEN QuarterPi ELSE -QuarterPi)

\* a step of the planner's loop that emits pass number i, on an obstacle-free
\* wall larger than the robot (where every sample is emitted)
EmitsPass ==
    /\ pc = "zigzag"
    /\ i' = i + 1
    /\ ValidParameters
    /\ params.obstacles = <<>>
    /\ params.wall_width > params.robot_width
    /\ params.wall_height > params.robot_width

\* C23: each pass the zigzag planner emits is a 45-degree diagonal that
\* matches its orientation tag and has at least 2 points
C23_ZigzagDiagonal ==
    [][EmitsPass =>
          DiagonalPass(SubSeq(path_points', Len(path_points) + 1, Len(path_points')), i)]_vars

(***************************************************************************)
(* C24: for valid parameters the spiral planner terminates: within a       *)
(* revolution the angle strictly increases until it reaches 2*pi, then     *)
(* resets to 0 while the radius grows by the effective width; the loop     *)
(* ends as soon as radius >= max radius; the points of one revolution lie  *)
(* on one radius robot_width/2 + k * effective width.                      *)
(***************************************************************************)
\* the scheduler runs the planner's loop to its end: it has no await
SpecSpiral == Spec /\ WF_vars(_plan_spiral)

InSpiral == pc = "spiral" /\ ValidParameters

\* one iteration: the angle advances within the revolution, or the
\* revolution is complete and the next one starts further out
SpiralIteration ==
    \/ /\ radius' = radius
       /\ angle' > angle
       /\ angle' < TwoPi
    \/ /\ angle + SpiralAngleStep(params, radius) >= TwoPi
       /\ angle' = 0
       /\ radius' = radius + effective_width(params)
       /\ radius' > radius

\* the point an iteration emits lies on the current radius around the centre
\* (to 2 mm, the rounding of the model's sine and cosine)
OnRadius(pt, r) ==
    LET d == Sqrt100((pt.x - params.wall_width \div 2) * (pt.x - params.wall_width \div 2)
                     + (pt.y - params.wall_height \div 2) * (pt.y - params.wall_height \div 2))
    IN Abs(d - 100 * r) <= 200

SpiralStep ==
    InSpiral =>
        IF radius >= SpiralMaxRadius(params)
        THEN pc' = "optimize" /\ path_points' = path_points
        ELSE /\ pc' = "spiral"
             /\ SpiralIteration
             /\ (radius - half_width(params)) % effective_width(params) = 0
             /\ \/ path_points' = path_points
                \/ /\ Len(path_points') = Len(path_points) + 1
                   /\ OnRadius(path_points'[Len(path_points')], radius)

\* C24: the spiral loop of a call with valid parameters ends, and until then
\* every iteration advances the angle or starts the next revolution
C24_SpiralTerminates ==
    /\ InSpiral ~> (pc = "optimize")
    /\ [][SpiralStep]_vars

\* the planner returned after more than one revolution with points emitted
C24_Witness ==
    /\ pc = "optimize"
    /\ algorithm = "spiral"
    /\ ValidParameters
    /\ radius >= half_width(params) + 2 * effective_width(params)
    /\ Len(path_points) >= 2

(***************************************************************************)
(* C25: rapid-move insertion adds exactly one marker for each consecutive *)
(* pair of the pruned sequence whose 2D distance is strictly greater than *)
(* RAPID_THRESHOLD and none for a pair at most that far apart; each       *)
(* marker sits immediately before the later point of the pair and has     *)
(* that point's (x, y), z = 0, tool_active = false and motion type rapid; *)
(* a sequence of fewer than two points is returned unchanged.              *)
(***************************************************************************)
\* the sequence handed to _add_connecting_moves
Pruned == IF Len(path_points) < 2 THEN path_points ELSE PruneCollinear(path_points)

\* the k-th pruned point is farther than RAPID_THRESHOLD from the one before
\* (squared, so that no root is rounded)
FarApart(pts, k) ==
    (pts[k].x - pts[k - 1].x) * (pts[k].x - pts[k - 1].x)
    + (pts[k].y - pts[k - 1].y) * (pts[k].y - pts[k - 1].y)
    > RAPID_THRESHOLD * RAPID_THRESHOLD

\* where the k-th pruned point stands once every marker up to it is inserted
PlaceOf(pts, k) == k + Cardinality({j \in 2..k : FarApart(pts, j)})

C25_RapidMarkers ==
    Optimized =>
        /\ Len(Pruned) < 2 => optimized_points = Pruned
        /\ Len(optimized_points) = PlaceOf(Pruned, Len(Pruned))
        /\ \A k \in 1..Len(Pruned) :
              /\ optimized_points[PlaceOf(Pruned, k)] = Pruned[k]
              /\ (k >= 2 /\ FarApart(Pruned, k)) =>
                    LET marker == optimized_points[PlaceOf(Pruned, k) - 1]
                    IN /\ marker.x = Pruned[k].x /\ marker.y = Pruned[k].y
                       /\ marker.z = 0
                       /\ ~marker.tool_active
                       /\ marker.motion_type = "rapid"

\* one pair of the pruned sequence is farther apart than the threshold and
\* has its marker, another is exactly the threshold apart and has none
C25_Witness ==
    /\ Optimized
    /\ \E k \in 2..Len(Pruned) :
          FarApart(Pruned, k) /\ IsMarker(optimized_points[PlaceOf(Pruned, k) - 1])
    /\ \E k \in 2..Len(Pruned) :
          /\ ~FarApart(Pruned, k)
          /\ Pruned[k] # Pruned[k - 1]
          /\ ~IsMarker(optimized_points[PlaceOf(Pruned, k) - 1])

\* a single point went through the optimizer and came back as it was
C25_WitnessSingle ==
    Optimized /\ Len(path_points) = 1 /\ optimized_points = path_points

(***************************************************************************)
(* C26: for an obstacle-free wall larger than the robot planned with      *)
(* boustrophedon the metrics of the optimized path report a cutting       *)
(* length (the summed length of the segments whose destination point is   *)
(* active) greater than 0, hence coverage_percentage > 0 and               *)
(* estimated_duration > 0.                                                 *)
(***************************************************************************)
C26_CuttingLengthPositive ==
    (Measured /\ OpenWallBoustrophedon) =>
        /\ CuttingLength(optimized_points, 2) > 0
        /\ metrics.coverage_percentage > 0
        /\ metrics.estimated_duration > 0

(***************************************************************************)
(* C27: when a planning call succeeds with n optimized points, exactly n  *)
(* trajectory points are stored for the new trajectory, one per optimized *)
(* point and in the same order, with sequence numbers 0, 1, ..., n-1 and  *)
(* planned_time = sequence number * 0.1; this holds for every n, n = 0,   *)
(* n below BATCH_SIZE, n an exact multiple of BATCH_SIZE and n above it    *)
(* included, so no point is lost or stored twice at a batch boundary.     *)
(***************************************************************************)
\* the committed points of the trajectory the call returned, in stored order
StoredPoints ==
    SelectSeq(db.points, LAMBDA row : row.trajectory_id = result.trajectory_id)

C27_WitnessEmpty ==
    pc = "done" /\ optimized_points = <<>> /\ StoredPoints = <<>>

\* fewer points than one batch
C27_WitnessBelow ==
    pc = "done" /\ Len(StoredPoints) \in 1..(BATCH_SIZE - 1)

\* full batches and a rest
C27_WitnessAbove ==
    pc = "done" /\ Len(StoredPoints) > BATCH_SIZE /\ Len(StoredPoints) % BATCH_SIZE # 0

(***************************************************************************)
(* C28: after a successful planning call the stored trajectory record's   *)
(* total_points equals the number of trajectory points stored for that    *)
(* trajectory and equals the total_points of the returned PlanningResult. *)
(***************************************************************************)
C28_TotalPointsStored ==
    pc = "done" =>
        \A k \in 1..Len(db.trajectories) :
           db.trajectories[k].id = result.trajectory_id =>
              /\ db.trajectories[k].total_points = Len(StoredPoints)
              /\ db.trajectories[k].total_points = result.total_points

(***************************************************************************)
(* C29: after any sequence of create-wall, update-wall, create-obstacle,  *)
(* delete-obstacle and delete-wall operations every stored obstacle is a  *)
(* rectangle or circle of positive size whose extent (and stored bounding *)
(* box min_x, min_y, max_x, max_y) lies fully inside its wall's current   *)
(* rectangle [0, width] x [0, height]; a create-obstacle request that     *)
(* would violate this (any polygon included) is rejected with status 400  *)
(* and stores nothing.                                                     *)
(***************************************************************************)
\* twice the extent of g: [left, right] x [bottom, top]
Extent2(g) ==
    IF g.type = "rectangle"
    THEN [left |-> 2 * g.center_x - g.width, right |-> 2 * g.center_x + g.width,
          bottom |-> 2 * g.center_y - g.height, top |-> 2 * g.center_y + g.height]
    ELSE [left |-> 2 * (g.center_x - g.radius), right |-> 2 * (g.center_x + g.radius),
          bottom |-> 2 * (g.center_y - g.radius), top |-> 2 * (g.center_y + g.radius)]

PositiveSize(g) ==
    \/ g.type = "rectangle" /\ g.width > 0 /\ g.height > 0
    \/ g.type = "circle" /\ g.radius > 0

InsideWall(g, wall) ==
    /\ PositiveSize(g)
    /\ Extent2(g).left >= 0 /\ Extent2(g).right <= 2 * wall.width
    /\ Extent2(g).bottom >= 0 /\ Extent2(g).top <= 2 * wall.height

StoredObstaclesInside ==
    \A k \in 1..Len(obstacles) :
       LET row == obstacles[k]
           wall == WallById(row.wall_id)
       IN /\ wall # NoWall
          /\ InsideWall(row.geometry, wall)
          /\ row.bounds.min_x >= 0 /\ row.bounds.max_x <= wall.width
          /\ row.bounds.min_y >= 0 /\ row.bounds.max_y <= wall.height

InvalidObstacleRejected ==
    \A id \in WallIds, g \in ObstacleBodies :
       (create_obstacle(id, g) /\ WallById(id) # NoWall
                               /\ ~InsideWall(g, WallById(id))) =>
          response'.status_code = 400 /\ UNCHANGED <<walls, obstacles, db>>

C29_ObstaclesInsideWall ==
    [][StoredObstaclesInside' /\ InvalidObstacleRejected]_vars

(***************************************************************************)
(* C30: after delete-wall succeeds for a wall w the store contains no     *)
(* obstacle, no trajectory and no trajectory point that refers to w,      *)
(* while every other wall and its obstacles, trajectories and points are  *)
(* unchanged.                                                              *)
(***************************************************************************)
\* the wall a stored point belongs to, through its trajectory (None if the
\* trajectory is not stored)
WallOfPoint(store, point) ==
    LET owners == {n \in 1..Len(store.trajectories) :
                      store.trajectories[n].id = point.trajectory_id}
    IN IF owners = {} THEN None
       ELSE store.trajectories[CHOOSE n \in owners : TRUE].wall_id

DeletesWall(id) == delete_wall(id) /\ WallById(id) # NoWall

C30_DeleteWallCascades ==
    [][\A id \in WallIds :
          DeletesWall(id) =>
             /\ response'.status_code = 200
             /\ \A k \in 1..Len(walls') : walls'[k].id # id
             /\ \A k \in 1..Len(obstacles') : obstacles'[k].wall_id # id
             /\ \A k \in 1..Len(db'.trajectories) : db'.trajectories[k].wall_id # id
             /\ \A k \in 1..Len(db'.points) :
                   WallOfPoint(db', db'.points[k]) \notin {id, None}
             /\ walls' = SelectSeq(walls, LAMBDA w : w.id # id)
             /\ obstacles' = SelectSeq(obstacles, LAMBDA o : o.wall_id # id)
             /\ db'.trajectories = SelectSeq(db.trajectories, LAMBDA t : t.wall_id # id)
             /\ db'.points = SelectSeq(db.points,
                                       LAMBDA p : WallOfPoint(db, p) # id)]_vars

\* wall 1 was deleted; wall 2, created while wall 1 was there, and its
\* obstacle are still stored
C30_Witness ==
    /\ response = [status_code |-> 200, detail |-> "Wall deleted successfully"]
    /\ WallById(1) = NoWall
    /\ WallById(2) # NoWall
    /\ \E k \in 1..Len(obstacles) : obstacles[k].wall_id = 2

=============================================================================
